---- MODULE Spec2Model ----
(***************************************************************************)
(* Behavior Tracking & Escalation Engine of the life-coach desktop agent.  *)
(*                                                                         *)
(*   BehaviorTracker   python-backend/behavior/tracker.py                  *)
(*   WindowCategorizer python-backend/behavior/categorizer.py              *)
(*   SmartNudgeAgent   python-backend/agents/smart_nudge.py                *)
(*   NudgeEngine       python-backend/behavior/nudges.py                   *)
(*                                                                         *)
(* Times are whole seconds (datetime values and the float durations        *)
(* derived from them).  Python's None is the empty tuple, a present value  *)
(* x is <<x>>.                                                             *)
(***************************************************************************)
EXTENDS Integers, Sequences, FiniteSets, TLC

VARIABLES
    \* ---- wall clock (datetime.now()) --------------------------------
    now,
    \* ---- BehaviorTracker ---------------------------------------------
    enable_persistence,
    events,
    session_start,
    current_window,
    current_category,
    previous_category,
    current_streak_start,
    current_streak_category,
    last_poll_time,
    current_goal,
    current_profile,
    goal_start_time,
    longest_focus_streak_seconds,
    app_usage,
    drift_events,
    store,
    \* the BehaviorStats returned by the call that made the last step
    stats,
    \* ---- SmartNudgeAgent and its collaborators -----------------------
    nudge_level,
    last_nudge_time,
    current_user_id,
    active_nudge,
    nudge_settings,
    nudge_history,
    utc_offset,
    result,
    dispatched,
    \* ---- NudgeEngine and the arguments of its last call ---------------
    engine_last_nudge_time,
    engine_drift_detected,
    last_category,
    message,
    in_category,
    in_streak_start,
    h_nudged,
    h_fired,
    h_celebrated,
    h_polled,
    h_calls,
    \* ---- the background worker and a request in progress ---------------
    is_running,
    loop_pc,
    loop_tab,
    loop_load,
    req_pc,
    req_tab,
    req_load,
    h_tick,
    h_caught,
    h_stopped_at,
    h_raised_at,
    \* ---- FlowAgent and its XP-award loop threads ------------------------
    \* FlowAgent.is_flow_active
    flow_active,
    flow_start_time,
    flow_goal,
    flow_user_id,
    stop_event,
    flow_pc,
    h_awarded,
    h_exited,
    h_late,
    \* ---- observation (history) variables -----------------------------
    h_call,
    h_on_track_seen,
    h_last_strict,
    h_scen,
    h_ticks,
    h_samples,
    h_reads

trackerVars == <<enable_persistence, events, session_start, current_window,
                 current_category, previous_category, current_streak_start,
                 current_streak_category, last_poll_time, current_goal,
                 current_profile, goal_start_time,
                 longest_focus_streak_seconds, app_usage, drift_events, store,
                 stats>>

agentVars == <<nudge_level, last_nudge_time, current_user_id, active_nudge,
               nudge_settings, nudge_history, utc_offset, result, dispatched>>

engineVars == <<engine_last_nudge_time, engine_drift_detected,
                last_category,
                message, in_category, in_streak_start, h_nudged, h_fired,
                h_celebrated, h_polled, h_calls>>

workerVars == <<is_running, loop_pc, loop_tab, loop_load, req_pc, req_tab,
                req_load, h_tick, h_caught, h_stopped_at, h_raised_at>>

flowVars == <<flow_active, flow_start_time, flow_goal, flow_user_id,
              stop_event, flow_pc, h_awarded, h_exited, h_late>>

histVars == <<h_call, h_on_track_seen, h_last_strict, h_scen, h_ticks,
              h_samples, h_reads>>

vars == <<now, trackerVars, agentVars, engineVars, workerVars, flowVars,
          histVars>>

----------------------------------------------------------------------------
(* Bounds of the model *)

\* number of samples recorded in one run
MaxEvents == 3
\* seconds of wall-clock time explored by the escalation controller
MaxElapsed == 180
\* age (seconds) of a nudge_history row that is still fresh at start-up
FreshAge == 30
\* number of samples recorded in a run that also reads the statistics
MaxStatsSamples == 2
\* number of get_stats() calls made in a row
MaxReads == 2
\* number of samples of a run that is polled once a minute
MaxTicks == 11
\* number of samples recorded in a run that changes the goal profile
MaxSamples == 3
\* seconds of wall-clock time explored with the background worker running
MaxWorkerElapsed == 5
\* number of samples recorded in a run that also saves and loads the state
MaxPersistSamples == 2
\* number of samples recorded in a run that also resets the tracker
MaxResetSamples == 4
\* number of samples categorised in one run of the categorizer
MaxCategorized == 2
\* number of get_nudge() calls in one run
MaxCalls == 4
\* number of enter_flow() calls, each of which starts a loop thread
MaxFlowLoops == 3

----------------------------------------------------------------------------
(* Optional values *)

None == <<>>
Some(x) == <<x>>
Val(o) == o[1]

Min(a, b) == IF a < b THEN a ELSE b

\* the operation that made the last step (observation only)
Call(op) == [op |-> op, tab |-> "", flow |-> FALSE, close |-> None]

\* the same for an operation that returns True or False
Returned(op, ret) ==
    [op |-> op, tab |-> "", flow |-> FALSE, close |-> None, ret |-> ret]

\* `x in seq`
Has(seq, x) == \E i \in 1..Len(seq) : seq[i] = x

----------------------------------------------------------------------------
(* WindowCategorizer *)

\* the window titles sampled by the model; "" is the empty title
Titles == {"", "Cursor", "YouTube", "Finder"}

\* str.lower()
Lower(title) ==
    CASE title = "Cursor" -> "cursor"
      [] title = "CURSOR" -> "cursor"
      [] title = "YouTube" -> "youtube"
      [] title = "Finder" -> "finder"
      [] title = "Discord" -> "discord"
      [] title = "LifeOS" -> "lifeos"
      [] title = "LifeOS - Cursor" -> "lifeos - cursor"
      [] title = "Linux Command" -> "linux command"
      [] OTHER -> title

\* `keyword in window_lower` for the titles of the model: the keywords that
\* are substrings of each lower-cased title
Occurs(keyword, window_lower) ==
    CASE window_lower = "cursor" -> keyword \in {"cursor"}
      [] window_lower = "youtube" -> keyword \in {"youtube"}
      [] window_lower = "finder" -> keyword \in {"finder"}
      [] window_lower = "discord" -> keyword \in {"discord"}
      [] window_lower = "lifeos - cursor" -> keyword \in {"lifeos", "cursor"}
      [] OTHER -> FALSE

AnyOccurs(keywords, window_lower) ==
    \E i \in 1..Len(keywords) : Occurs(keywords[i], window_lower)

\* pattern.search(window_lower) with pattern = re.compile(keyword,
\* re.IGNORECASE): the keyword is read as a regular expression, so the dot of
\* "x.com" stands for any character and the pattern is found in "linux command"
Searches(keyword, window_lower) ==
    \/ Occurs(keyword, window_lower)
    \/ keyword = "x.com" /\ window_lower = "linux command"

AnySearches(keywords, window_lower) ==
    \E i \in 1..Len(keywords) : Searches(keywords[i], window_lower)

\* a variant with no identifier of the tracking application
NoOwnAppKeywords == <<>>

\* identifiers of the tracking application itself
own_app_keywords == <<"lifeos", "life-os", "life coach", "lifecoach",
                      "lifecoachagent", "life-coach-agent",
                      "lifecoachagent-desktop">>

\* the built-in tables (the entries that no title of the model contains are
\* left out; the order of the three tables is the code's)
focus_keywords == <<"cursor", "vscode", "code", "terminal", "slack", "discord">>
distraction_keywords == <<"youtube", "instagram", "reddit", "x.com", "netflix",
                          "discord">>
neutral_keywords == <<"finder", "settings", "chrome", "lifeos">>

\* goal profiles handed to set_goal()
Profiles == { [focus_apps |-> <<"YouTube">>, distraction_apps |-> <<"Cursor">>,
               neutral_apps |-> <<>>, keywords |-> <<>>] }

ProfileOptions == {None} \cup {Some(p) : p \in Profiles}

\* titles and goal profiles for the categorizer: a title in another case, one
\* in both built-in tables, one of the tracking application's own window, one
\* that holds no keyword; profiles that list nothing, that list the
\* application itself, and that use all four lists
CatTitles == Titles \cup {"CURSOR", "Discord", "LifeOS - Cursor", "Linux Command"}

CatProfiles ==
    Profiles \cup
    { [focus_apps |-> <<>>, distraction_apps |-> <<>>,
       neutral_apps |-> <<>>, keywords |-> <<>>],
      [focus_apps |-> <<"LifeOS">>, distraction_apps |-> <<>>,
       neutral_apps |-> <<>>, keywords |-> <<>>],
      [focus_apps |-> <<"Discord">>, distraction_apps |-> <<"Discord", "LifeOS">>,
       neutral_apps |-> <<"Cursor">>, keywords |-> <<"finder">>] }

CatProfileOptions == {None} \cup {Some(p) : p \in CatProfiles}

LowerAll(apps) == [i \in 1..Len(apps) |-> Lower(apps[i])]

categorize(window_title, goal_profile) ==
    LET window_lower == Lower(window_title) IN
    IF window_title = "" THEN "neutral"
    ELSE IF AnyOccurs(own_app_keywords, window_lower) THEN "neutral"
    ELSE IF goal_profile # None
            /\ AnyOccurs(LowerAll(Val(goal_profile).focus_apps), window_lower)
         THEN "focus"
    ELSE IF goal_profile # None
            /\ AnyOccurs(LowerAll(Val(goal_profile).distraction_apps), window_lower)
         THEN "distraction"
    ELSE IF goal_profile # None
            /\ AnyOccurs(LowerAll(Val(goal_profile).neutral_apps), window_lower)
         THEN "neutral"
    ELSE IF goal_profile # None
            /\ AnyOccurs(LowerAll(Val(goal_profile).keywords), window_lower)
         THEN "focus"
    ELSE IF AnySearches(focus_keywords, window_lower) THEN "focus"
    ELSE IF AnySearches(distraction_keywords, window_lower) THEN "distraction"
    ELSE IF AnySearches(neutral_keywords, window_lower) THEN "neutral"
    ELSE "neutral"

----------------------------------------------------------------------------
(* BehaviorTracker *)

\* cap on the duration attributed to one sample (seconds)
MaxSampleGap == 300

\* seconds between two samples
TrackerSteps == {5, 400}

\* a streak update: the value returned and the three fields it may assign
StreakResult(ret, start, cat, longest) ==
    [ret |-> ret, start |-> start, cat |-> cat, longest |-> longest]

\* mutant: a non-focus sample reports the running streak instead of 0
UpdateStreakKeepsStreak(category, timestamp, start, cat, longest) ==
    IF start = None /\ category # "focus"
    THEN StreakResult(0, start, cat, longest)
    ELSE LET s == IF start = None THEN Some(timestamp) ELSE start IN
         StreakResult(timestamp - Val(s), s, Some("focus"), longest)

\* mutant: the high-water mark is overwritten by every running streak
UpdateStreakOverwritesLongest(category, timestamp, start, cat, longest) ==
    LET s == IF start = None /\ category = "focus" THEN Some(timestamp) ELSE start
        c == IF start = None /\ category = "focus" THEN Some("focus") ELSE cat
    IN  IF start = None /\ category # "focus"
        THEN StreakResult(0, start, cat, longest)
        ELSE IF category = "focus"
        THEN IF c = Some("focus")
             THEN StreakResult(timestamp - Val(s), s, c, timestamp - Val(s))
             ELSE StreakResult(0, Some(timestamp), Some("focus"), longest)
        ELSE IF c = Some("focus")
             THEN StreakResult(0, None, Some(category), longest)
             ELSE StreakResult(0, s, c, longest)

\* mutant: breaking a streak also clears the high-water mark
UpdateStreakResetsLongest(category, timestamp, start, cat, longest) ==
    IF category # "focus"
    THEN StreakResult(0, None, Some(category), 0)
    ELSE UpdateStreakOverwritesLongest(category, timestamp, start, cat,
                                       longest)

\* a variant that restarts the streak at every focus sample
UpdateStreakRestartsOnFocus(category, timestamp, start, cat, longest) ==
    IF category = "focus"
    THEN StreakResult(0, Some(timestamp), Some("focus"), longest)
    ELSE StreakResult(0, None, Some(category), longest)

\* BehaviorTracker._update_streak
UpdateStreak(category, timestamp, start, cat, longest) ==
    LET \* "Initialize streak if needed"
        s == IF start = None /\ category = "focus" THEN Some(timestamp) ELSE start
        c == IF start = None /\ category = "focus" THEN Some("focus") ELSE cat
    IN  IF start = None /\ category # "focus"
        THEN StreakResult(0, start, cat, longest)
        ELSE IF category = "focus"
        THEN IF c = Some("focus")
             THEN LET streak_duration == timestamp - Val(s) IN
                  StreakResult(streak_duration, s, c,
                               IF streak_duration > longest
                               THEN streak_duration ELSE longest)
             ELSE StreakResult(0, Some(timestamp), Some("focus"), longest)
        ELSE IF c = Some("focus")
             THEN StreakResult(0, None, Some(category), longest)
             ELSE StreakResult(0, s, c, longest)

\* the defaultdict's default entry
DefaultUsage == [total_seconds |-> 0, focus_seconds |-> 0,
                 category |-> "neutral", usage_count |-> 0]

UsageOf(usage, app) == IF app \in DOMAIN usage THEN usage[app] ELSE DefaultUsage

\* datetime.isoformat() / datetime.fromisoformat()
IsoFormat(t) == [iso |-> t]
FromIsoFormat(s) == s.iso
IsoOrNone(o) == IF o = None THEN None ELSE Some(IsoFormat(Val(o)))

\* the dictionary save_state() hands to the persistence layer
Snapshot(ev, ss, cw, cc, pc, css, csc, lpt, longest, usage, drifts, goal, gst) ==
    [events |-> [i \in 1..Len(ev) |->
                    [timestamp |-> IsoFormat(ev[i].timestamp),
                     active_window |-> ev[i].active_window,
                     category |-> ev[i].category,
                     duration_seconds |-> ev[i].duration_seconds,
                     streak_seconds |-> ev[i].streak_seconds,
                     is_app_switch |-> ev[i].is_app_switch]],
     session_start |-> IsoOrNone(ss),
     current_window |-> cw,
     current_category |-> cc,
     previous_category |-> pc,
     current_streak_start |-> IsoOrNone(css),
     current_streak_category |-> csc,
     last_poll_time |-> IsoOrNone(lpt),
     longest_focus_streak_seconds |-> longest,
     app_usage |-> usage,
     drift_events |-> [i \in 1..Len(drifts) |-> IsoFormat(drifts[i])],
     current_goal |-> goal,
     goal_start_time |-> IsoOrNone(gst),
     daily_goal_minutes |-> 60]

\* mutant: the idle gap is attributed in full
DurationUncapped(poll, timestamp) ==
    IF poll # None THEN timestamp - Val(poll) ELSE 0

\* "Calculate duration since last poll"
DurationSince(poll, timestamp) ==
    IF poll # None THEN Min(timestamp - Val(poll), MaxSampleGap) ELSE 0

\* a variant that counts every sample's duration as focus time
UpdateUsageAlwaysFocus(old, category, duration_seconds) ==
    [total_seconds |-> old.total_seconds + duration_seconds,
     focus_seconds |-> old.focus_seconds + duration_seconds,
     category |-> category,
     usage_count |-> old.usage_count + 1]

\* record_activity(), the per-app statistics of the sampled window: the
\* duration is added to total_seconds always and to focus_seconds only for a
\* focus sample; the category is overwritten and usage_count incremented
UpdateUsage(old, category, duration_seconds) ==
    [total_seconds |-> old.total_seconds + duration_seconds,
     focus_seconds |-> IF category = "focus"
                       THEN old.focus_seconds + duration_seconds
                       ELSE old.focus_seconds,
     category |-> category,
     usage_count |-> old.usage_count + 1]

\* a variant that logs the title as it was given
WindowNameRaw(window_title) ==
    window_title

\* record_activity(), the window name of the logged event:
\* window_title or "Unknown"
WindowName(window_title) ==
    IF window_title = "" THEN "Unknown" ELSE window_title

\* BehaviorTracker.record_activity(window_title, timestamp), called step
\* seconds after the previous operation
record_activity(window_title, step) ==
    LET timestamp == now + step
        first == session_start = None
        poll == IF first THEN Some(timestamp) ELSE last_poll_time
        category == categorize(window_title, current_profile)
        drift_detected == current_category = Some("focus")
                          /\ category \in {"distraction", "neutral"}
        is_app_switch == Some(window_title) # current_window
        duration_seconds == DurationSince(poll, timestamp)
        st == UpdateStreak(category, timestamp, current_streak_start,
                           current_streak_category, longest_focus_streak_seconds)
        old == UsageOf(app_usage, window_title)
        new == UpdateUsage(old, category, duration_seconds)
        event == [timestamp |-> timestamp,
                  active_window |-> WindowName(window_title),
                  category |-> category,
                  duration_seconds |-> duration_seconds,
                  streak_seconds |-> st.ret,
                  is_app_switch |-> is_app_switch]
    IN  /\ h_samples' = h_samples + 1
        /\ now' = timestamp
        /\ session_start' = IF first THEN Some(timestamp) ELSE session_start
        /\ drift_events' = IF drift_detected THEN Append(drift_events, timestamp)
                           ELSE drift_events
        /\ previous_category' = current_category
        /\ current_streak_start' = st.start
        /\ current_streak_category' = st.cat
        /\ longest_focus_streak_seconds' = st.longest
        /\ app_usage' = IF window_title # ""
                        THEN [a \in DOMAIN app_usage \cup {window_title} |->
                                 IF a = window_title THEN new ELSE app_usage[a]]
                        ELSE app_usage
        /\ events' = Append(events, event)
        /\ current_window' = Some(window_title)
        /\ current_category' = Some(category)
        /\ last_poll_time' = Some(timestamp)
        /\ stats' = None
        /\ h_reads' = 0
        /\ h_call' = Call("record_activity")
        /\ UNCHANGED <<enable_persistence, current_goal, current_profile,
                       goal_start_time, store>>
        /\ UNCHANGED <<agentVars, engineVars, workerVars, flowVars, h_on_track_seen, h_last_strict,
                       h_scen, h_ticks>>

\* one sample of the polling loop, within the bound of the run
RecordActivity(window_title, step) ==
    /\ h_samples < MaxEvents
    /\ record_activity(window_title, step)

\* BehaviorTracker.set_goal(goal, profile)
SetGoal(goal, profile) ==
    /\ current_goal' = Some(goal)
    /\ current_profile' = profile
    /\ goal_start_time' = IF goal_start_time = None THEN Some(now)
                          ELSE goal_start_time
    /\ stats' = None
    /\ h_reads' = 0
    /\ h_call' = Call("set_goal")
    /\ UNCHANGED <<now, enable_persistence, events, session_start,
                   current_window, current_category, previous_category,
                   current_streak_start, current_streak_category,
                   last_poll_time, longest_focus_streak_seconds, app_usage,
                   drift_events, store>>
    /\ UNCHANGED <<agentVars, engineVars, workerVars, flowVars, h_on_track_seen, h_last_strict,
                   h_scen, h_ticks, h_samples>>

\* BehaviorTracker.reset(), with the save_state() that ends it; save_ok is
\* the outcome of DataPersistence.save()
Reset(save_ok) ==
    /\ events' = <<>>
    /\ session_start' = None
    /\ current_window' = None
    /\ current_category' = None
    /\ current_streak_start' = None
    /\ current_streak_category' = None
    /\ last_poll_time' = None
    /\ longest_focus_streak_seconds' = 0
    /\ app_usage' = <<>>
    /\ drift_events' = <<>>
    /\ store' = IF enable_persistence /\ save_ok
                THEN Some(Snapshot(<<>>, None, None, None, previous_category,
                                   None, None, None, 0, <<>>, <<>>,
                                   current_goal, goal_start_time))
                ELSE store
    /\ stats' = None
    /\ h_reads' = 0
    /\ h_call' = Call("reset")
    /\ UNCHANGED <<now, enable_persistence, previous_category, current_goal,
                   current_profile, goal_start_time>>
    /\ UNCHANGED <<agentVars, engineVars, workerVars, flowVars, h_on_track_seen, h_last_strict,
                   h_scen, h_ticks, h_samples>>

\* BehaviorTracker.save_state(): the tracker's fields are serialised and
\* handed to DataPersistence.save(), whose outcome is save_ok; without
\* persistence nothing is written
SaveStateCall(save_ok) ==
    /\ store' = IF enable_persistence /\ save_ok
                THEN Some(Snapshot(events, session_start, current_window,
                                   current_category, previous_category,
                                   current_streak_start, current_streak_category,
                                   last_poll_time, longest_focus_streak_seconds,
                                   app_usage, drift_events, current_goal,
                                   goal_start_time))
                ELSE store
    /\ stats' = None
    /\ h_reads' = 0
    /\ h_call' = Returned("save_state", enable_persistence /\ save_ok)
    /\ UNCHANGED <<now, enable_persistence, events, session_start,
                   current_window, current_category, previous_category,
                   current_streak_start, current_streak_category,
                   last_poll_time, current_goal, current_profile,
                   goal_start_time, longest_focus_streak_seconds, app_usage,
                   drift_events>>
    /\ UNCHANGED <<agentVars, engineVars, workerVars, flowVars, h_on_track_seen, h_last_strict,
                   h_scen, h_ticks, h_samples>>

\* load_state(), a timestamp field: assigned only `if data.get(...)`, so a
\* null in the snapshot leaves the tracker's own value in place
LoadTime(saved, own) ==
    IF saved # None THEN Some(FromIsoFormat(Val(saved))) ELSE own

\* a string datetime.fromisoformat() rejects with a ValueError
NotIso == [text |-> "yesterday"]
IsIso(s) == "iso" \in DOMAIN s

\* the timestamp entries of a snapshot, in the order load_state() parses them
TimeEntries == <<"session_start", "current_streak_start", "last_poll_time",
                 "goal_start_time">>

\* the entry is present and its string is not an ISO timestamp
Malformed(data, entry) == data[entry] # None /\ ~IsIso(Val(data[entry]))

WellFormed(data) == \A i \in 1..Len(TimeEntries) : ~Malformed(data, TimeEntries[i])

\* the first timestamp entry whose parsing raises, Len(TimeEntries) + 1 when
\* none does
FailsAt(data) ==
    IF WellFormed(data) THEN Len(TimeEntries) + 1
    ELSE CHOOSE i \in 1..Len(TimeEntries) :
            /\ Malformed(data, TimeEntries[i])
            /\ \A j \in 1..(i - 1) : ~Malformed(data, TimeEntries[j])

\* the data file is edited outside the program: the entry becomes a string
\* that is not an ISO timestamp (the file stays valid JSON)
CorruptStore(entry) ==
    /\ store # None
    /\ store' = Some([Val(store) EXCEPT ![entry] = Some(NotIso)])
    /\ h_call' = Call("edit_file")
    /\ UNCHANGED <<now, enable_persistence, events, session_start,
                   current_window, current_category, previous_category,
                   current_streak_start, current_streak_category,
                   last_poll_time, current_goal, current_profile,
                   goal_start_time, longest_focus_streak_seconds, app_usage,
                   drift_events, stats>>
    /\ UNCHANGED <<agentVars, engineVars, workerVars, flowVars, h_on_track_seen, h_last_strict,
                   h_scen, h_ticks, h_samples, h_reads>>

\* BehaviorTracker.load_state(): without persistence or without a saved file
\* nothing changes and False is returned; otherwise the fields are assigned
\* from the snapshot one after the other, and a ValueError raised by
\* fromisoformat() ends the call there, with False returned by the except
\* clause and the fields assigned so far left as assigned
LoadStateCall ==
    /\ IF enable_persistence /\ store # None
       THEN LET data == Val(store)
                stop == FailsAt(data)
                \* the assignment that follows the parsing of k entries
                After(k, new, old) == IF stop > k THEN new ELSE old
            IN
            /\ events' = [i \in 1..Len(data.events) |->
                             [timestamp |-> FromIsoFormat(data.events[i].timestamp),
                              active_window |-> data.events[i].active_window,
                              category |-> data.events[i].category,
                              duration_seconds |-> data.events[i].duration_seconds,
                              streak_seconds |-> data.events[i].streak_seconds,
                              is_app_switch |-> data.events[i].is_app_switch]]
            /\ session_start' =
                  IF stop > 1 THEN LoadTime(data.session_start, session_start)
                  ELSE session_start
            /\ current_window' = After(1, data.current_window, current_window)
            /\ current_category' = After(1, data.current_category,
                                         current_category)
            /\ previous_category' = After(1, data.previous_category,
                                          previous_category)
            /\ current_streak_start' =
                  IF stop > 2 THEN LoadTime(data.current_streak_start,
                                            current_streak_start)
                  ELSE current_streak_start
            /\ current_streak_category' = After(2, data.current_streak_category,
                                                current_streak_category)
            /\ last_poll_time' =
                  IF stop > 3 THEN LoadTime(data.last_poll_time, last_poll_time)
                  ELSE last_poll_time
            /\ longest_focus_streak_seconds' =
                  After(3, data.longest_focus_streak_seconds,
                        longest_focus_streak_seconds)
            /\ app_usage' = After(3, data.app_usage, app_usage)
            /\ drift_events' =
                  After(3, [i \in 1..Len(data.drift_events) |->
                               FromIsoFormat(data.drift_events[i])],
                        drift_events)
            /\ current_goal' = After(3, data.current_goal, current_goal)
            /\ goal_start_time' =
                  IF stop > 4 THEN LoadTime(data.goal_start_time, goal_start_time)
                  ELSE goal_start_time
            /\ h_call' = Returned("load_state", stop > Len(TimeEntries))
       ELSE /\ UNCHANGED <<events, session_start, current_window,
                           current_category, previous_category,
                           current_streak_start, current_streak_category,
                           last_poll_time, longest_focus_streak_seconds,
                           app_usage, drift_events, current_goal,
                           goal_start_time>>
            /\ h_call' = Returned("load_state", FALSE)
    /\ stats' = None
    /\ h_reads' = 0
    /\ UNCHANGED <<now, enable_persistence, current_profile, store>>
    /\ UNCHANGED <<agentVars, engineVars, workerVars, flowVars, h_on_track_seen, h_last_strict,
                   h_scen, h_ticks, h_samples>>

\* BehaviorTracker.get_stats(): the per-category totals (in seconds, before
\* the division by 60.0) and the number of app switches
RECURSIVE SumWhere(_, _)
SumWhere(ev, cats) ==
    IF ev = <<>> THEN 0
    ELSE (IF Head(ev).category \in cats THEN Head(ev).duration_seconds ELSE 0)
         + SumWhere(Tail(ev), cats)

\* float minutes: seconds / 60.0, kept as an exact fraction
Minutes(seconds) == [num |-> seconds, den |-> 60]

RECURSIVE StatsLoopDoubleCounts(_, _)
\* mutant: the chain is a run of independent ifs and neutral time is also
\* added to the focus bucket
StatsLoopDoubleCounts(ev, acc) ==
    IF ev = <<>> THEN acc
    ELSE LET e == Head(ev)
             duration == e.duration_seconds
         IN  StatsLoopDoubleCounts(Tail(ev),
                <<acc[1] + (IF e.category \in {"focus", "neutral"} THEN duration ELSE 0),
                  acc[2] + (IF e.category = "distraction" THEN duration ELSE 0),
                  acc[3] + (IF e.category = "neutral" THEN duration ELSE 0)>>)

RECURSIVE StatsLoop(_, _)
\* the loop over self.events with its if/elif chain; acc = <<focus,
\* distraction, neutral>> seconds
StatsLoop(ev, acc) ==
    IF ev = <<>> THEN acc
    ELSE LET e == Head(ev)
             duration == e.duration_seconds
         IN  StatsLoop(Tail(ev),
                IF e.category = "focus"
                THEN <<acc[1] + duration, acc[2], acc[3]>>
                ELSE IF e.category = "distraction"
                THEN <<acc[1], acc[2] + duration, acc[3]>>
                ELSE IF e.category = "neutral"
                THEN <<acc[1], acc[2], acc[3] + duration>>
                ELSE acc)

RECURSIVE CountSwitches(_)
\* app_switches: the events flagged is_app_switch
CountSwitches(ev) ==
    IF ev = <<>> THEN 0
    ELSE (IF Head(ev).is_app_switch THEN 1 ELSE 0) + CountSwitches(Tail(ev))

\* mutant: outside a focus streak the best streak so far is reported
GetStatsReportsLongest(ev, ss, css, csc, lpt, cc, longest, usage) ==
    LET acc == StatsLoop(ev, <<0, 0, 0>>)
        current_streak == IF css # None /\ lpt # None
                             /\ csc = Some("focus") /\ cc = Some("focus")
                          THEN Val(lpt) - Val(css) ELSE longest
    IN  [total_focus_minutes |-> Minutes(acc[1]),
         total_distraction_minutes |-> Minutes(acc[2]),
         total_neutral_minutes |-> Minutes(acc[3]),
         total_polls |-> Len(ev),
         longest_focus_streak_seconds |-> longest,
         current_streak_seconds |-> current_streak,
         current_category |-> cc,
         app_switches |-> CountSwitches(ev),
         session_start |-> ss,
         total_session_time_seconds |->
             IF ss # None /\ lpt # None THEN Val(lpt) - Val(ss) ELSE 0,
         productive_app_time_map |->
             [a \in {x \in DOMAIN usage : usage[x].focus_seconds > 0} |->
                 Minutes(usage[a].focus_seconds)]]

GetStats(ev, ss, css, csc, lpt, cc, longest, usage) ==
    LET acc == StatsLoop(ev, <<0, 0, 0>>)
        current_streak == IF css # None /\ lpt # None
                             /\ csc = Some("focus") /\ cc = Some("focus")
                          THEN Val(lpt) - Val(css) ELSE 0
    IN  [total_focus_minutes |-> Minutes(acc[1]),
         total_distraction_minutes |-> Minutes(acc[2]),
         total_neutral_minutes |-> Minutes(acc[3]),
         total_polls |-> Len(ev),
         longest_focus_streak_seconds |-> longest,
         current_streak_seconds |-> current_streak,
         current_category |-> cc,
         app_switches |-> CountSwitches(ev),
         session_start |-> ss,
         total_session_time_seconds |->
             IF ss # None /\ lpt # None THEN Val(lpt) - Val(ss) ELSE 0,
         productive_app_time_map |->
             [a \in {x \in DOMAIN usage : usage[x].focus_seconds > 0} |->
                 Minutes(usage[a].focus_seconds)]]

\* the BehaviorStats get_stats() builds from the tracker's fields
get_stats == GetStats(events, session_start, current_streak_start,
                      current_streak_category, last_poll_time,
                      current_category, longest_focus_streak_seconds,
                      app_usage)

\* mutant: the productive-app map looks the current window up in the
\* defaultdict, which inserts a default record for it
GetStatsCallTouchesUsage ==
    LET w == IF current_window = None THEN "Unknown" ELSE Val(current_window) IN
    /\ h_reads < MaxReads
    /\ h_reads' = h_reads + 1
    /\ stats' = Some(get_stats)
    /\ app_usage' = [a \in DOMAIN app_usage \cup {w} |-> UsageOf(app_usage, a)]
    /\ h_call' = Call("get_stats")
    /\ UNCHANGED <<now, enable_persistence, events, session_start,
                   current_window, current_category, previous_category,
                   current_streak_start, current_streak_category,
                   last_poll_time, current_goal, current_profile,
                   goal_start_time, longest_focus_streak_seconds,
                   drift_events, store>>
    /\ UNCHANGED <<agentVars, engineVars, workerVars, flowVars, h_on_track_seen, h_last_strict,
                   h_scen, h_ticks, h_samples>>

\* a call of BehaviorTracker.get_stats(): it assigns no field of the tracker
GetStatsCall ==
    /\ h_reads < MaxReads
    /\ h_reads' = h_reads + 1
    /\ stats' = Some(get_stats)
    /\ h_call' = Call("get_stats")
    /\ UNCHANGED <<now, enable_persistence, events, session_start,
                   current_window, current_category, previous_category,
                   current_streak_start, current_streak_category,
                   last_poll_time, current_goal, current_profile,
                   goal_start_time, longest_focus_streak_seconds, app_usage,
                   drift_events, store>>
    /\ UNCHANGED <<agentVars, engineVars, workerVars, flowVars, h_on_track_seen, h_last_strict,
                   h_scen, h_ticks, h_samples>>

----------------------------------------------------------------------------
(* NudgeEngine *)

\* "Don't spam nudges (1 minute cooldown)"
nudge_cooldown_seconds == 60

\* the message get_nudge() returns is modelled by its class: "celebration",
\* "drift", "distraction", "streak_10", "streak_20", "streak_30", "praise",
\* and "none" for Python's None

Categories == {"focus", "distraction", "neutral"}

\* seconds between two get_nudge() calls
NudgeSteps == {30, 60, 300, 600}

\* distraction_time_minutes handed to get_nudge()
DistractionMinutes == {0, 10}

\* mutant: the global cooldown is not checked
InCooldownNever(last, t) == FALSE

\* "Check cooldown"
InCooldown(last, t) ==
    last # None /\ t - Val(last) < nudge_cooldown_seconds

\* streak_minutes >= n and streak_minutes < n + 1, streak_minutes being
\* current_streak_seconds / 60.0
InMinute(streak_seconds, n) ==
    streak_seconds >= 60 * n /\ streak_seconds < 60 * (n + 1)

\* the milestone whose minute the streak is in, or "none"
MilestoneOf(streak_seconds) ==
    IF InMinute(streak_seconds, 10) THEN "streak_10"
    ELSE IF InMinute(streak_seconds, 20) THEN "streak_20"
    ELSE IF InMinute(streak_seconds, 30) THEN "streak_30"
    ELSE "none"

\* mutant: the time of the call is never kept
EngineOutcomeForgetsTime(last, drift, cat, msg) ==
    [last |-> None, drift |-> drift, cat |-> cat, msg |-> msg]

\* what one get_nudge() call leaves behind: the engine's three fields and
\* the class of the message returned
EngineOutcome(last, drift, cat, msg) ==
    [last |-> last, drift |-> drift, cat |-> cat, msg |-> msg]

\* NudgeEngine.get_nudge at time t; keyword_match is whether active_window
\* contains a keyword of goal_profile
GetNudge(last, drift, cat, t, category, previous, current_streak_seconds, distraction_time_minutes, daily_complete, keyword_match) ==
    IF InCooldown(last, t)
    THEN EngineOutcome(last, drift, cat, "none")
    ELSE IF daily_complete /\ ~drift
            /\ (last = None \/ t - Val(last) > 300)
    THEN EngineOutcome(Some(t), drift, cat, "celebration")
    ELSE IF previous = Some("focus")
            /\ category \in {"distraction", "neutral"}
            /\ (~drift \/ (last # None /\ t - Val(last) > 30))
    THEN EngineOutcome(Some(t), TRUE, cat, "drift")
    ELSE IF category = "distraction" /\ distraction_time_minutes >= 10
            /\ (last = None \/ t - Val(last) >= 300)
    THEN EngineOutcome(Some(t), drift, Some(category), "distraction")
    ELSE IF category = "focus" /\ current_streak_seconds > 0
            /\ MilestoneOf(current_streak_seconds) # "none"
            /\ (cat # Some("focus") \/ last = None)
    THEN EngineOutcome(Some(t), drift, Some(category),
                       MilestoneOf(current_streak_seconds))
    ELSE IF category = "focus" /\ keyword_match
            /\ (cat # Some("focus") \/ last = None)
    THEN EngineOutcome(Some(t), drift, Some(category), "praise")
    ELSE EngineOutcome(last,
                       IF category = "focus" /\ drift THEN FALSE
                       ELSE drift,
                       Some(category), "none")

\* the streak the tracker reports for a sample of this category taken at t
StreakAt(category, t) ==
    IF category = "focus" /\ in_category = Some("focus")
       /\ in_streak_start # None
    THEN t - Val(in_streak_start) ELSE 0

\* one poll, step seconds after the previous one: get_nudge() is called with
\* the category of the sample, the category of the previous sample and the
\* running focus streak, as test_nudges.py calls it
GetNudgeCall(step, category, distraction_time_minutes, daily_complete, keyword_match) ==
    LET t == now + step
        streak == StreakAt(category, t)
        out == GetNudge(engine_last_nudge_time, engine_drift_detected,
                        last_category,
                        t, category, in_category, streak,
                        distraction_time_minutes, daily_complete,
                        keyword_match)
    IN  /\ h_calls < MaxCalls
        /\ h_calls' = h_calls + 1
        /\ now' = t
        /\ engine_last_nudge_time' = out.last
        /\ engine_drift_detected' = out.drift
        /\ last_category' = out.cat
        /\ message' = out.msg
        /\ in_category' = Some(category)
        /\ in_streak_start' =
               IF category # "focus" THEN None
               ELSE IF in_category = Some("focus") /\ in_streak_start # None
               THEN in_streak_start ELSE Some(t)
        \* when a message of each class was last returned ("any": of any class)
        /\ h_nudged' = IF out.msg = "none" THEN h_nudged
                       ELSE [c \in DOMAIN h_nudged |->
                               IF c \in {out.msg, "any"} THEN Some(t)
                               ELSE h_nudged[c]]
        \* the milestones returned so far
        /\ h_fired' = IF out.msg \in {"streak_10", "streak_20", "streak_30"}
                      THEN h_fired \cup {out.msg} ELSE h_fired
        \* a celebration was returned and daily_complete has stayed true since
        /\ h_celebrated' = (daily_complete
                            /\ (h_celebrated \/ out.msg = "celebration"))
        \* the arguments of the call, and whether a celebration had already
        \* been returned when it was made
        /\ h_polled' = [streak |-> streak, daily_complete |-> daily_complete,
                        distraction_time_minutes |-> distraction_time_minutes,
                        celebrated |-> h_celebrated]
        /\ h_call' = Call("get_nudge")
        /\ UNCHANGED <<trackerVars, agentVars, workerVars, flowVars, h_on_track_seen, h_last_strict,
                       h_scen, h_ticks, h_samples, h_reads>>

----------------------------------------------------------------------------
(* SmartNudgeAgent *)

\* the rows of the per-user tables, and the user the controller is polled for
Users == {"u1", "u2"}
PolledUsers == {"u1"}

\* goals handed to process(): none, or a goal with its goal_text
Goals == {None, Some([goal_text |-> "learn to code"])}

\* values of metrics.current_status.active_tab_url: "" stands for a missing
\* or empty url
Tabs == {"", "PERMISSION_ERROR", "https://www.youtube.com/watch",
         "https://github.com/pulls"}

\* seconds between escalation levels
escalation_interval == 60
\* a stored nudge time is restored when it is younger than this (seconds)
RestoreWindow == 3600
\* seconds that pass between two polls of the controller (HTTP polls and
\* _nudge_loop iterations): less than, and exactly, one escalation_interval
AgentSteps == {30, 60}

\* any(distractor in active_tab.lower() for distractor in distractor_sites)
IsDistractorSite(tab) == tab \in {"https://www.youtube.com/watch"}

\* `"http" in distractor`
HasHttp(tab) == tab \in {"https://www.youtube.com/watch", "https://github.com/pulls"}

\* SmartNudgeAgent._is_off_track
is_off_track(tab) ==
    IF tab = "" THEN FALSE
    ELSE IF tab = "PERMISSION_ERROR" THEN TRUE
    ELSE IsDistractorSite(tab)

\* mutant: the sentinel is not told apart from an unknown distractor
GetCurrentDistractorNoSentinel(tab) ==
    IF tab # "" /\ IsDistractorSite(tab) THEN tab
    ELSE "distractor site"

\* SmartNudgeAgent._get_current_distractor
get_current_distractor(tab) ==
    IF tab # "" /\ tab = "PERMISSION_ERROR" THEN "PERMISSION_ERROR"
    ELSE IF tab # "" /\ IsDistractorSite(tab) THEN tab
    ELSE "distractor site"

\* SmartNudgeAgent._get_productive_site
get_productive_site(goal) ==
    IF goal = None THEN "https://linkedin.com"
    ELSE IF Val(goal).goal_text = "learn to code" THEN "https://leetcode.com"
    ELSE "https://linkedin.com"

\* mutant: the interval is not awaited
ShouldEscalateAlways(last, t) == TRUE

\* SmartNudgeAgent._should_escalate
ShouldEscalate(last, t) ==
    IF last = None THEN TRUE
    ELSE t - Val(last) >= escalation_interval

\* mutant: the ladder has no top rung
NextLevelUncapped(level) == level + 1

\* self.nudge_level = min(self.nudge_level + 1, 3)
NextLevel(level) == Min(level + 1, 3)

\* the UTC offsets (seconds east of UTC) of the machines the agent runs on
UtcOffsets == {0 - 18000, 0, 3600}

\* the nudge_history column `timestamp TIMESTAMP DEFAULT CURRENT_TIMESTAMP`:
\* SQLite stores the UTC wall-clock time of the insert, which
\* get_last_nudge_time() hands back as a naive datetime; t is the local
\* wall-clock time (datetime.now()) of the insert
UtcNow(t) ==
    t - utc_offset

\* SmartNudgeAgent._load_state: the last_nudge_time after the call; the
\* stored (UTC) time is compared with the local datetime.now()
LoadState(user_id, last, history, t) ==
    IF history[user_id] # None /\ t - Val(history[user_id]) < RestoreWindow
    THEN history[user_id]
    ELSE last

\* results of process()
NoNudge == [raised |-> FALSE, nudge_needed |-> FALSE, level |-> 0,
            action |-> "none", title |-> "", closed |-> "", opened |-> ""]
Raised == [raised |-> TRUE, nudge_needed |-> FALSE, level |-> 0,
           action |-> "none", title |-> "", closed |-> "", opened |-> ""]
Nudge(level, title, action, closed, opened) ==
    [raised |-> FALSE, nudge_needed |-> TRUE, level |-> level,
     action |-> action, title |-> title, closed |-> closed, opened |-> opened]

PermissionNudge == Nudge(1, "Permission Needed", "notify", "", "")

\* what one process() call leaves behind: the agent's fields, the
\* nudge_history table, the value returned and the sink calls made, in order
Outcome(level, last, active, history, res, calls) ==
    [level |-> level, last |-> last, active |-> active, history |-> history,
     result |-> res, dispatched |-> calls]

\* SmartNudgeAgent._ai_intervention; close_ok is what _close_chrome_tab returns
AiIntervention(distractor, goal, close_ok) ==
    IF close_ok
    THEN [result |-> Nudge(3, "AI Intervention", "intervene", distractor,
                           get_productive_site(goal)),
          dispatched |-> <<"close_tab", "open_tab", "notify">>]
    ELSE [result |-> Nudge(3, "Focus Time", "notify", "", ""),
          dispatched |-> <<"close_tab", "notify">>]

\* the nudge dispatched for a level: _gentle_nudge, _firm_warning,
\* _ai_intervention
LevelAction(level, distractor, goal, close_ok) ==
    IF level = 1
    THEN [result |-> Nudge(1, "Stay Focused", "notify", "", ""),
          dispatched |-> <<"notify">>]
    ELSE IF level = 2
    THEN [result |-> Nudge(2, "Focus Reminder", "notify", "", ""),
          dispatched |-> <<"notify">>]
    ELSE IF level = 3
    THEN AiIntervention(distractor, goal, close_ok)
    ELSE [result |-> NoNudge, dispatched |-> <<>>]

\* mutant: a tick inside the interval is treated as a reset
NoEscalationResets(level, last, history) ==
    Outcome(0, None, None, history, NoNudge, <<>>)

\* process(), off track with the interval not yet elapsed: "Clear active
\* nudge if no nudge needed"
NoEscalation(level, last, history) ==
    Outcome(level, last, None, history, NoNudge, <<>>)

\* process(), "Check escalation": save_ok is whether db.save_nudge_event
\* returned; when it raises, the exception leaves process() after the two
\* assignments (the INSERT is rolled back by conn.close())
Escalate(user_id, goal, distractor, level, last, active, history, t, close_ok, save_ok) ==
    LET new_level == NextLevel(level)
        act == LevelAction(new_level, distractor, goal, close_ok)
    IN  IF ~save_ok
        THEN Outcome(new_level, Some(t), active, history, Raised, <<>>)
        ELSE Outcome(new_level, Some(t), Some(act.result),
                     [history EXCEPT ![user_id] = Some(UtcNow(t))],
                     act.result, act.dispatched)

\* process(), "NORMAL MODE CHECK" and what follows it
NormalMode(user_id, goal, tab, level, last, active, history, t, close_ok, save_ok) ==
    IF ~is_off_track(tab)
    THEN IF level > 0
         THEN Outcome(0, None, active, history, NoNudge, <<>>)
         ELSE Outcome(level, last, active, history, NoNudge, <<>>)
    ELSE LET distractor == get_current_distractor(tab) IN
         IF distractor = "PERMISSION_ERROR"
         THEN Outcome(level, last, Some(PermissionNudge), history,
                      PermissionNudge, <<>>)
         ELSE IF ShouldEscalate(last, t)
         THEN Escalate(user_id, goal, distractor, level, last, active,
                       history, t, close_ok, save_ok)
         ELSE NoEscalation(level, last, history)

StrictNudge == Nudge(3, "Strict Mode", "strict_intervention", "", "")

\* SmartNudgeAgent._handle_strict_mode
HandleStrictMode(tab, level, last, active, history) ==
    LET distractor == get_current_distractor(tab) IN
    IF distractor # "distractor site"
    THEN Outcome(level, last, Some(StrictNudge), history, StrictNudge,
                 IF HasHttp(distractor)
                 THEN <<"deduct_xp", "close_tab", "notify">>
                 ELSE <<"deduct_xp", "notify">>)
    ELSE Outcome(level, last, active, history, NoNudge, <<>>)

\* SmartNudgeAgent.process(input_data)
Process(user_id, goal, tab, is_flow_active, close_ok, save_ok) ==
    LET loaded == IF Some(user_id) # current_user_id
                  THEN LoadState(user_id, last_nudge_time, nudge_history, now)
                  ELSE last_nudge_time
        enabled == nudge_settings[user_id]
        out == IF ~enabled
               THEN Outcome(nudge_level, loaded, active_nudge, nudge_history,
                            NoNudge, <<>>)
               ELSE IF is_flow_active
               THEN HandleStrictMode(tab, nudge_level, loaded, active_nudge,
                                     nudge_history)
               ELSE NormalMode(user_id, goal, tab, nudge_level, loaded,
                               active_nudge, nudge_history, now,
                               close_ok, save_ok)
        strict_hit == enabled /\ is_flow_active /\ IsDistractorSite(tab)
        scen == /\ h_scen
                /\ enabled /\ ~is_flow_active /\ IsDistractorSite(tab)
                /\ current_user_id \in {None, Some(user_id)}
                /\ (h_ticks = {} => nudge_level = 0 /\ loaded = None)
    IN  \* _nudge_loop sleeps between two strict-mode calls
        /\ is_flow_active => h_last_strict # Some(now)
        /\ nudge_level' = out.level
        /\ last_nudge_time' = out.last
        /\ current_user_id' = Some(user_id)
        /\ active_nudge' = out.active
        /\ nudge_history' = out.history
        /\ result' = out.result
        /\ dispatched' = out.dispatched
        /\ h_call' = [op |-> "process", tab |-> tab, flow |-> is_flow_active,
                      \* what _close_chrome_tab returned, when it was called
                      close |-> IF Has(out.dispatched, "close_tab")
                                THEN Some(close_ok) ELSE None]
        /\ h_on_track_seen' = IF out.level > nudge_level THEN FALSE
                              ELSE IF enabled /\ ~is_flow_active
                                      /\ ~is_off_track(tab) THEN TRUE
                              ELSE h_on_track_seen
        /\ h_last_strict' = IF strict_hit THEN Some(now) ELSE None
        /\ h_scen' = scen
        /\ h_ticks' = IF scen THEN h_ticks \cup {now} ELSE {}
        /\ UNCHANGED <<now, nudge_settings, utc_offset, trackerVars, engineVars, flowVars,
                       h_samples, h_reads>>

\* POST /api/nudge/settings: db.set_nudge_settings(user_id, enabled)
SetNudgeSettings(user_id, enabled) ==
    /\ nudge_settings' = [nudge_settings EXCEPT ![user_id] = enabled]
    /\ h_call' = Call("set_nudge_settings")
    /\ UNCHANGED <<now, trackerVars, engineVars, workerVars, flowVars, nudge_level,
                   last_nudge_time,
                   current_user_id, active_nudge, nudge_history, utc_offset,
                   result, dispatched, h_on_track_seen, h_last_strict,
                   h_scen, h_ticks, h_samples, h_reads>>

\* time passes between two calls
Advance(step) ==
    /\ now + step <= MaxElapsed
    /\ now' = now + step
    /\ h_call' = Call("advance")
    /\ UNCHANGED <<trackerVars, agentVars, engineVars, workerVars, flowVars, h_on_track_seen,
                   h_last_strict, h_scen, h_ticks, h_samples, h_reads>>

----------------------------------------------------------------------------
(* The background worker (_nudge_loop) and the request path *)

\* time.sleep(5) at the end of every iteration of _nudge_loop
TickInterval == 5

\* the user whose flow session and whose requests are modelled, and the tabs
\* the probe reports
WorkerUser == "u1"
WorkerTabs == {"https://www.youtube.com/watch", "https://github.com/pulls"}

\* what a process() call holds after "Load state if user changed" has tested
\* the user and read the table: whether the user changed, and the row read
NoLoad == [changed |-> FALSE, row |-> None]

\* process(), `if user_id != self.current_user_id:` and, when the user
\* changed, the read of get_last_nudge_time(user_id) in _load_state
EnterLoad(user_id) ==
    IF Some(user_id) # current_user_id
    THEN [changed |-> TRUE, row |-> nudge_history[user_id]]
    ELSE NoLoad

\* _load_state after the read: the age test on the row that was read and the
\* assignment to last_nudge_time
FinishLoad(user_id, load) ==
    IF load.changed
    THEN LoadState(user_id, last_nudge_time, [u \in Users |-> load.row], now)
    ELSE last_nudge_time

\* the worker variables that a step of one thread leaves alone
LoopLocals == <<loop_pc, loop_tab, loop_load, h_tick, h_caught>>
ReqLocals == <<req_pc, req_tab, req_load>>

\* SmartNudgeAgent.start(): is_running = True and the worker thread begins
StartAgent ==
    /\ loop_pc = "idle"
    /\ is_running' = TRUE
    /\ loop_pc' = "check"
    /\ h_call' = Call("start")
    /\ UNCHANGED <<now, trackerVars, agentVars, engineVars, flowVars, loop_tab,
                   loop_load, ReqLocals, h_tick, h_caught, h_stopped_at,
                   h_raised_at, h_on_track_seen, h_last_strict, h_scen,
                   h_ticks, h_samples, h_reads>>

\* BaseAgent.stop(): is_running = False, nothing else
StopAgent ==
    /\ is_running
    /\ is_running' = FALSE
    /\ h_stopped_at' = Some(now)
    /\ h_call' = Call("stop")
    /\ UNCHANGED <<now, trackerVars, agentVars, engineVars, flowVars, LoopLocals,
                   ReqLocals, h_raised_at, h_on_track_seen, h_last_strict,
                   h_scen, h_ticks, h_samples, h_reads>>

\* _nudge_loop, `while self.is_running:`; when the test fails the function
\* returns and the thread ends
LoopCheck ==
    /\ loop_pc = "check"
    /\ loop_pc' = IF is_running THEN "probe" ELSE "exited"
    /\ h_call' = Call("loop_check")
    /\ UNCHANGED <<now, trackerVars, agentVars, engineVars, flowVars, is_running,
                   loop_tab, loop_load, ReqLocals, h_tick, h_caught,
                   h_stopped_at, h_raised_at, h_on_track_seen, h_last_strict,
                   h_scen, h_ticks, h_samples, h_reads>>

\* a variant of the loop without the try/except: an exception ends the thread
AfterExceptionUncaught == "exited"

\* _nudge_loop, `except Exception as e:` prints, sleeps and goes round again
AfterException == "sleep"

\* _nudge_loop, the start of the body: the probe is read
\* (get_usage_detailed); with a flow session active process() is entered,
\* tests the user and reads the table
LoopProbe(tab, flow, probe_ok) ==
    /\ loop_pc = "probe"
    /\ IF ~probe_ok
       THEN /\ loop_pc' = AfterException
            /\ h_tick' = "caught"
            /\ h_caught' = TRUE
            /\ UNCHANGED <<loop_tab, loop_load>>
       ELSE IF ~flow
       THEN /\ loop_pc' = "sleep"
            /\ h_tick' = "ok"
            /\ UNCHANGED <<loop_tab, loop_load, h_caught>>
       ELSE /\ loop_pc' = "load"
            /\ loop_tab' = tab
            /\ loop_load' = EnterLoad(WorkerUser)
            /\ h_tick' = "entered"
            /\ UNCHANGED h_caught
    /\ h_call' = Call("loop_probe")
    /\ UNCHANGED <<now, trackerVars, agentVars, engineVars, flowVars, is_running,
                   ReqLocals, h_stopped_at, h_raised_at, h_on_track_seen,
                   h_last_strict, h_scen, h_ticks, h_samples, h_reads>>

\* process() in the worker thread: _load_state's assignment and
\* `self.current_user_id = user_id`
LoopLoad ==
    /\ loop_pc = "load"
    /\ last_nudge_time' = FinishLoad(WorkerUser, loop_load)
    /\ current_user_id' = Some(WorkerUser)
    /\ loop_pc' = "run"
    /\ h_call' = Call("loop_load")
    /\ UNCHANGED <<now, trackerVars, engineVars, flowVars, nudge_level, active_nudge,
                   nudge_settings, nudge_history, utc_offset, result,
                   dispatched, is_running, loop_tab, loop_load, ReqLocals,
                   h_tick, h_caught, h_stopped_at, h_raised_at,
                   h_on_track_seen, h_last_strict, h_scen, h_ticks,
                   h_samples, h_reads>>

\* process() in the worker thread from get_nudge_settings on, in strict mode;
\* raises names the call that raised: the store (get_nudge_settings) or a
\* sink of _handle_strict_mode (deduct_xp), which is reached on a distractor
LoopRun(raises, close_ok) ==
    /\ loop_pc = "run"
    /\ raises = "sink" => /\ nudge_settings[WorkerUser]
                          /\ get_current_distractor(loop_tab) # "distractor site"
    /\ IF raises # "none"
       THEN /\ loop_pc' = AfterException
            /\ h_tick' = "caught"
            /\ h_caught' = TRUE
            /\ h_call' = Call("loop_raise")
            /\ UNCHANGED <<agentVars, h_on_track_seen, h_last_strict, h_scen,
                           h_ticks>>
       ELSE /\ Process(WorkerUser, None, loop_tab, TRUE, close_ok, TRUE)
            /\ loop_pc' = "sleep"
            /\ h_tick' = "ok"
            /\ UNCHANGED h_caught
    /\ UNCHANGED <<now, trackerVars, engineVars, flowVars, is_running, loop_tab,
                   loop_load, ReqLocals, h_stopped_at, h_raised_at,
                   h_samples, h_reads>>

\* _nudge_loop, time.sleep(5)
LoopSleep ==
    /\ loop_pc = "sleep"
    /\ now + TickInterval <= MaxWorkerElapsed
    /\ now' = now + TickInterval
    /\ loop_pc' = "check"
    /\ h_call' = Call("loop_sleep")
    /\ UNCHANGED <<trackerVars, agentVars, engineVars, flowVars, is_running, loop_tab,
                   loop_load, ReqLocals, h_tick, h_caught, h_stopped_at,
                   h_raised_at, h_on_track_seen, h_last_strict, h_scen,
                   h_ticks, h_samples, h_reads>>

\* time passes while no worker thread is alive
WorkerAdvance ==
    /\ loop_pc \in {"idle", "exited"}
    /\ now + TickInterval <= MaxWorkerElapsed
    /\ Advance(TickInterval)

\* GET /api/nudge/check reaches process() on the event-loop thread, which
\* tests the user and reads the table
ReqEnter(tab) ==
    /\ req_pc = "idle"
    /\ req_pc' = "load"
    /\ req_tab' = tab
    /\ req_load' = EnterLoad(WorkerUser)
    /\ h_call' = Call("req_enter")
    /\ UNCHANGED <<now, trackerVars, agentVars, engineVars, flowVars, is_running,
                   LoopLocals, h_stopped_at, h_raised_at, h_on_track_seen,
                   h_last_strict, h_scen, h_ticks, h_samples, h_reads>>

\* process() on the request path: _load_state's assignment and
\* `self.current_user_id = user_id`
ReqLoad ==
    /\ req_pc = "load"
    /\ last_nudge_time' = FinishLoad(WorkerUser, req_load)
    /\ current_user_id' = Some(WorkerUser)
    /\ req_pc' = "run"
    /\ h_call' = Call("req_load")
    /\ UNCHANGED <<now, trackerVars, engineVars, flowVars, nudge_level, active_nudge,
                   nudge_settings, nudge_history, utc_offset, result,
                   dispatched, is_running, LoopLocals, req_tab, req_load,
                   h_stopped_at, h_raised_at, h_on_track_seen, h_last_strict,
                   h_scen, h_ticks, h_samples, h_reads>>

\* process() on the request path from get_nudge_settings on, in normal mode
ReqRun(close_ok, save_ok) ==
    /\ req_pc = "run"
    /\ Process(WorkerUser, None, req_tab, FALSE, close_ok, save_ok)
    /\ req_pc' = "idle"
    /\ h_raised_at' = IF nudge_level' > nudge_level THEN Some(now)
                      ELSE IF nudge_level' = 0 THEN None
                      ELSE h_raised_at
    /\ UNCHANGED <<is_running, LoopLocals, req_tab, req_load, h_stopped_at>>

----------------------------------------------------------------------------
(* FlowAgent: enter_flow, exit_flow and the XP-award loop (_flow_loop) *)

\* the loop threads that enter_flow() can start in one run
FlowLoops == 1..MaxFlowLoops

\* POST /api/flow/enter: the goal and user_id of the request (user_id may be
\* missing)
FlowGoal == "write code"
FlowUsers == {None, Some("u1")}

\* flow_pc[i] is where loop thread i stands: "none" (not started),
\* "while_test" (`while not self._stop_event.is_set()`), "inner_test" (the
\* test inside `for _ in range(60)`), "sleep" (time.sleep(1)), "after_for"
\* (the test after the for loop, followed by the award), "done" (returned)
Started == {i \in FlowLoops : flow_pc[i] # "none"}
RunningLoops == {i \in FlowLoops : flow_pc[i] \notin {"none", "done"}}

\* FlowAgent.__init__
InitFlowFields ==
    /\ flow_active = FALSE
    /\ flow_start_time = None
    /\ flow_goal = None
    /\ flow_user_id = None
    /\ stop_event = FALSE
    /\ flow_pc = [i \in FlowLoops |-> "none"]
    /\ h_awarded = {}
    /\ h_exited = {}
    /\ h_late = {}

\* what the FlowAgent's steps leave alone
NotFlow ==
    <<now, trackerVars, agentVars, engineVars, workerVars, h_on_track_seen,
      h_last_strict, h_scen, h_ticks, h_samples, h_reads>>

\* FlowAgent.enter_flow(goal, user_id): the fields are assigned, the stop
\* event is cleared and a new thread running _flow_loop is started (the apps
\* closed and opened are outside the model)
EnterFlow(user_id) ==
    /\ Cardinality(Started) < MaxFlowLoops
    /\ flow_active' = TRUE
    /\ flow_start_time' = Some(now)
    /\ flow_goal' = Some(FlowGoal)
    /\ flow_user_id' = user_id
    /\ stop_event' = FALSE
    /\ flow_pc' = [flow_pc EXCEPT ![Cardinality(Started) + 1] = "while_test"]
    /\ h_call' = Call("enter_flow")
    /\ UNCHANGED <<h_awarded, h_exited, h_late, NotFlow>>

\* FlowAgent.exit_flow(): "not_active" when no flow is active, otherwise the
\* flag is lowered and the stop event set
ExitFlow ==
    /\ IF ~flow_active
       THEN UNCHANGED <<flow_active, stop_event, h_exited>>
       ELSE /\ flow_active' = FALSE
            /\ stop_event' = TRUE
            \* the loops started before this call
            /\ h_exited' = h_exited \cup Started
    /\ h_call' = Call("exit_flow")
    /\ UNCHANGED <<flow_start_time, flow_goal, flow_user_id, flow_pc,
                   h_awarded, h_late, NotFlow>>

\* one step of loop thread i that only moves it to pc
FlowGoto(i, pc) ==
    /\ flow_pc' = [flow_pc EXCEPT ![i] = pc]
    /\ h_call' = Call("flow_loop")
    /\ UNCHANGED <<flow_active, flow_start_time, flow_goal, flow_user_id,
                   stop_event, h_exited, NotFlow>>

\* _flow_loop, `while not self._stop_event.is_set():`
FlowWhileTest(i) ==
    /\ flow_pc[i] = "while_test"
    /\ FlowGoto(i, IF stop_event THEN "done" ELSE "inner_test")
    /\ UNCHANGED <<h_awarded, h_late>>

\* _flow_loop, `if self._stop_event.is_set(): break` inside the for loop
FlowInnerTest(i) ==
    /\ flow_pc[i] = "inner_test"
    /\ FlowGoto(i, IF stop_event THEN "after_for" ELSE "sleep")
    /\ UNCHANGED <<h_awarded, h_late>>

\* _flow_loop, time.sleep(1) returns: more is whether iterations of
\* `for _ in range(60)` remain
FlowSleep(i, more) ==
    /\ flow_pc[i] = "sleep"
    /\ FlowGoto(i, IF more THEN "inner_test" ELSE "after_for")
    /\ UNCHANGED <<h_awarded, h_late>>

\* _flow_loop, after the for loop: `if self._stop_event.is_set(): break`,
\* then "Award XP every minute" when a user is set
FlowAward(i) ==
    /\ flow_pc[i] = "after_for"
    /\ FlowGoto(i, IF stop_event THEN "done" ELSE "while_test")
    /\ h_awarded' = IF ~stop_event /\ flow_user_id # None
                    THEN h_awarded \cup {i} ELSE h_awarded
    \* the loops that awarded XP after an exit_flow() that followed their start
    /\ h_late' = IF ~stop_event /\ flow_user_id # None /\ i \in h_exited
                 THEN h_late \cup {i} ELSE h_late

----------------------------------------------------------------------------
(* Specifications *)

NoCall == Call("init")

InitTrackerFields ==
    /\ events = <<>>
    /\ session_start = None
    /\ current_window = None
    /\ current_category = None
    /\ previous_category = None
    /\ current_streak_start = None
    /\ current_streak_category = None
    /\ last_poll_time = None
    /\ current_goal = None
    /\ current_profile = None
    /\ goal_start_time = None
    /\ longest_focus_streak_seconds = 0
    /\ app_usage = <<>>
    /\ drift_events = <<>>
    /\ store = None
    /\ stats = None

InitAgentFields ==
    /\ nudge_level = 0
    /\ last_nudge_time = None
    /\ current_user_id = None
    /\ active_nudge = None
    /\ result = NoNudge
    /\ dispatched = <<>>
    /\ h_call = NoCall
    /\ h_on_track_seen = FALSE
    /\ h_last_strict = None
    /\ h_scen = TRUE
    /\ h_ticks = {}
    /\ h_samples = 0
    /\ h_reads = 0

\* NudgeEngine.__init__
InitEngineFields ==
    /\ engine_last_nudge_time = None
    /\ engine_drift_detected = FALSE
    /\ last_category = None
    /\ message = "none"
    /\ in_category = None
    /\ in_streak_start = None
    /\ h_nudged = [c \in {"any", "celebration", "drift", "distraction"} |-> None]
    /\ h_fired = {}
    /\ h_celebrated = FALSE
    /\ h_polled = [streak |-> 0, daily_complete |-> FALSE,
                   distraction_time_minutes |-> 0, celebrated |-> FALSE]
    /\ h_calls = 0

\* BaseAgent.__init__ (is_running = False); no worker thread and no request
InitWorkerFields ==
    /\ is_running = FALSE
    /\ loop_pc = "idle"
    /\ loop_tab = ""
    /\ loop_load = NoLoad
    /\ req_pc = "idle"
    /\ req_tab = ""
    /\ req_load = NoLoad
    /\ h_tick = "none"
    /\ h_caught = FALSE
    /\ h_stopped_at = None
    /\ h_raised_at = None

\* the tracker after construction
Init ==
    /\ now = 0
    /\ enable_persistence \in BOOLEAN
    /\ InitTrackerFields
    /\ InitAgentFields
    /\ InitEngineFields
    /\ InitWorkerFields
    /\ InitFlowFields
    /\ nudge_settings = [u \in Users |-> FALSE]
    /\ nudge_history = [u \in Users |-> None]
    /\ utc_offset = 0

Next ==
    \/ \E w \in Titles, d \in TrackerSteps : RecordActivity(w, d)
    \/ \E p \in ProfileOptions : SetGoal("deep work", p)
    \/ \E ok \in BOOLEAN : Reset(ok)

Spec == Init /\ [][Next]_vars

\* the tracker sampled and reset as above, with its statistics read in between
NextStats ==
    \/ \E w \in Titles, d \in TrackerSteps :
          h_samples < MaxStatsSamples /\ record_activity(w, d)
    \/ \E p \in ProfileOptions : SetGoal("deep work", p)
    \/ \E ok \in BOOLEAN : Reset(ok)
    \/ GetStatsCall

SpecStats == Init /\ [][NextStats]_vars

\* the polling loop of test_nudges.py: one sample a minute, no goal profile
TickSteps == {60}
TickTitles == {"Cursor", "YouTube"}

NextTicks ==
    \E w \in TickTitles, d \in TickSteps :
        h_samples < MaxTicks /\ record_activity(w, d)

SpecTicks == Init /\ [][NextTicks]_vars

\* the tracker sampled while the goal profile changes: a window may be focus
\* under one profile and a distraction under the next
SampleTitles == {"", "Cursor", "YouTube"}

NextSamples ==
    \/ \E w \in SampleTitles, d \in TrackerSteps :
          h_samples < MaxSamples /\ record_activity(w, d)
    \/ \E p \in ProfileOptions : SetGoal("deep work", p)

SpecSamples == Init /\ [][NextSamples]_vars

\* the tracker sampled and reset in turn, with no goal profile
ResetTitles == {"Cursor", "YouTube"}

NextReset ==
    \/ \E w \in ResetTitles, d \in TrackerSteps :
          h_samples < MaxResetSamples /\ record_activity(w, d)
    \/ \E ok \in BOOLEAN : Reset(ok)

SpecReset == Init /\ [][NextReset]_vars

\* the tracker sampled and reset, with its state saved to and loaded from the
\* data file in between
PersistTitles == {"Cursor", "YouTube"}
PersistSteps == {5}
\* the entries edited in the data file: the first and the last timestamp
\* that load_state() parses
MalformedEntries == {"session_start", "goal_start_time"}

NextPersist ==
    \/ \E w \in PersistTitles, d \in PersistSteps :
          h_samples < MaxPersistSamples /\ record_activity(w, d)
    \/ SetGoal("deep work", None)
    \/ \E ok \in BOOLEAN : Reset(ok)
    \/ \E ok \in BOOLEAN : SaveStateCall(ok)
    \/ LoadStateCall
    \/ \E entry \in MalformedEntries : CorruptStore(entry)

SpecPersist == Init /\ [][NextPersist]_vars

\* the agent started, polled by the frontend for a user who enabled nudges,
\* and stopped; the database may hold a row written two escalation intervals
\* ago
InitWorker ==
    /\ now = 0
    /\ enable_persistence = TRUE
    /\ InitTrackerFields
    /\ InitAgentFields
    /\ InitEngineFields
    /\ InitWorkerFields
    /\ InitFlowFields
    /\ nudge_settings = [u \in Users |-> u = WorkerUser]
    /\ utc_offset = 0
    /\ \E h \in {None, Some(UtcNow(0 - 2 * escalation_interval))} :
          nudge_history = [u \in Users |-> IF u = WorkerUser THEN h ELSE None]

NextWorker ==
    \/ StartAgent
    \/ StopAgent
    \/ LoopCheck
    \/ \E tab \in WorkerTabs, flow \in BOOLEAN, probe_ok \in BOOLEAN :
          LoopProbe(tab, flow, probe_ok)
    \/ LoopLoad
    \/ \E raises \in {"none", "store", "sink"}, close_ok \in BOOLEAN :
          LoopRun(raises, close_ok)
    \/ LoopSleep
    \/ WorkerAdvance
    \/ \E tab \in WorkerTabs : ReqEnter(tab)
    \/ ReqLoad
    \/ \E close_ok \in BOOLEAN, save_ok \in BOOLEAN : ReqRun(close_ok, save_ok)

SpecWorker == InitWorker /\ [][NextWorker]_vars

\* the flow endpoints called in any order while the loop threads run
NextFlow ==
    \/ \E u \in FlowUsers : EnterFlow(u)
    \/ ExitFlow
    \/ \E i \in FlowLoops : FlowWhileTest(i)
    \/ \E i \in FlowLoops : FlowInnerTest(i)
    \/ \E i \in FlowLoops, more \in BOOLEAN : FlowSleep(i, more)
    \/ \E i \in FlowLoops : FlowAward(i)

SpecFlow == Init /\ [][NextFlow]_vars

\* the categorizer at work: set_goal() hands over a goal profile and
\* record_activity() categorises the sampled title under it
CatSteps == {5}

NextCategorize ==
    \/ \E w \in CatTitles, d \in CatSteps :
          h_samples < MaxCategorized /\ record_activity(w, d)
    \/ \E p \in CatProfileOptions : SetGoal("deep work", p)

SpecCategorize == Init /\ [][NextCategorize]_vars

\* the agent after construction; the database may hold rows of an earlier
\* run: none, a stale one or a fresh one
InitAgent ==
    /\ now = 0
    /\ enable_persistence = TRUE
    /\ InitTrackerFields
    /\ InitAgentFields
    /\ InitEngineFields
    /\ InitWorkerFields
    /\ InitFlowFields
    /\ nudge_settings = [u \in Users |-> FALSE]
    /\ utc_offset \in UtcOffsets
    /\ \E h \in {None, Some(UtcNow(0 - RestoreWindow)),
                 Some(UtcNow(0 - FreshAge))} :
          nudge_history = [u \in Users |-> IF u = "u1" THEN h ELSE None]

\* the call reaches "Check escalation" and escalates: only then are the goal
\* and the outcomes of save_nudge_event and _close_chrome_tab consulted
Escalates(user_id, tab, is_flow_active) ==
    /\ nudge_settings[user_id]
    /\ ~is_flow_active
    /\ IsDistractorSite(tab)
    /\ ShouldEscalate(IF Some(user_id) # current_user_id
                      THEN LoadState(user_id, last_nudge_time, nudge_history, now)
                      ELSE last_nudge_time, now)

\* one poll of the controller: GET /api/nudge/check or a _nudge_loop iteration
ProcessCall(user_id, tab, is_flow_active) ==
    \E g \in Goals, close_ok \in BOOLEAN, save_ok \in BOOLEAN :
        /\ Escalates(user_id, tab, is_flow_active)
           \/ (g = None /\ close_ok /\ save_ok)
        /\ Process(user_id, g, tab, is_flow_active, close_ok, save_ok)
        /\ UNCHANGED workerVars

NextAgent ==
    \/ \E u \in PolledUsers, tab \in Tabs, flow \in BOOLEAN :
          ProcessCall(u, tab, flow)
    \/ \E u \in PolledUsers, e \in BOOLEAN : SetNudgeSettings(u, e)
    \/ \E d \in AgentSteps : Advance(d)

SpecAgent == InitAgent /\ [][NextAgent]_vars

\* the controller polled for two users in turn, as GET /api/nudge/check does
\* with the user_id of each request: nudges are enabled for both, and each
\* user's last nudge_history row is absent or FreshAge seconds old
InitUsers ==
    /\ now = 0
    /\ enable_persistence = TRUE
    /\ InitTrackerFields
    /\ InitAgentFields
    /\ InitEngineFields
    /\ InitWorkerFields
    /\ InitFlowFields
    /\ nudge_settings = [u \in Users |-> TRUE]
    /\ utc_offset = 0
    /\ nudge_history \in [Users -> {None, Some(UtcNow(0 - FreshAge))}]

\* the active tabs of those requests: a distractor and a productive site
UserTabs == {"https://www.youtube.com/watch", "https://github.com/pulls"}

NextUsers ==
    \/ \E u \in Users, tab \in UserTabs : ProcessCall(u, tab, FALSE)
    \/ \E d \in AgentSteps : Advance(d)

SpecUsers == InitUsers /\ [][NextUsers]_vars

\* the nudge engine after construction, polled with the samples of a session
InitNudge ==
    /\ now = 0
    /\ enable_persistence = TRUE
    /\ InitTrackerFields
    /\ InitAgentFields
    /\ InitEngineFields
    /\ InitWorkerFields
    /\ InitFlowFields
    /\ nudge_settings = [u \in Users |-> FALSE]
    /\ nudge_history = [u \in Users |-> None]
    /\ utc_offset = 0

\* the arguments that the call reads for a sample of this category
NudgeCall(step, category) ==
    \E minutes \in DistractionMinutes, daily_complete \in BOOLEAN, keyword_match \in BOOLEAN :
        /\ category # "distraction" => minutes = 0
        /\ category # "focus" => ~keyword_match
        /\ GetNudgeCall(step, category, minutes, daily_complete,
                        keyword_match)

NextNudge ==
    \E d \in NudgeSteps, c \in Categories : NudgeCall(d, c)

SpecNudge == InitNudge /\ [][NextNudge]_vars

----------------------------------------------------------------------------
(* Properties of the BehaviorTracker (specification Spec) *)

\* C1: every logged event whose category is not focus has streak_seconds = 0
C1_NonFocusStreakZero ==
    \A i \in 1..Len(events) :
        events[i].category # "focus" => events[i].streak_seconds = 0

\* a focus streak was running (positive streak) and a non-focus sample broke it
C1_Witness ==
    \E i \in 2..Len(events) :
        /\ events[i-1].category = "focus"
        /\ events[i-1].streak_seconds > 0
        /\ events[i].category # "focus"
        /\ events[i].streak_seconds = 0

\* C2: no record_activity() call lowers longest_focus_streak_seconds
C2_LongestNonDecreasing ==
    [][h_call'.op = "record_activity" =>
          longest_focus_streak_seconds' >= longest_focus_streak_seconds]_vars

\* the mark was raised by a streak and survived the sample that broke it
C2_Witness ==
    /\ h_call.op = "record_activity"
    /\ longest_focus_streak_seconds > 0
    /\ events[Len(events)].category # "focus"
    /\ current_streak_start = None

\* C3: each total of get_stats() is the sum of duration_seconds of the logged
\* events of that category (in minutes), and the three buckets together hold
\* every logged second once
C3_StatsTotals ==
    LET st == get_stats IN
    /\ st.total_focus_minutes = Minutes(SumWhere(events, {"focus"}))
    /\ st.total_distraction_minutes = Minutes(SumWhere(events, {"distraction"}))
    /\ st.total_neutral_minutes = Minutes(SumWhere(events, {"neutral"}))
    /\ st.total_focus_minutes.num + st.total_distraction_minutes.num
       + st.total_neutral_minutes.num
       = SumWhere(events, {"focus", "distraction", "neutral"})

\* time was logged in the focus bucket and in another bucket
C3_Witness ==
    /\ SumWhere(events, {"focus"}) > 0
    /\ SumWhere(events, {"distraction", "neutral"}) > 0
    /\ get_stats.total_focus_minutes.num > 0

\* the log is Scenario A: ten Cursor samples (focus) one minute apart and
\* then one YouTube sample (distraction)
IsScenarioA ==
    /\ Len(events) = 11
    /\ \A i \in 1..10 : /\ events[i].active_window = "Cursor"
                        /\ events[i].category = "focus"
                        /\ events[i].timestamp = events[1].timestamp + 60 * (i - 1)
    /\ events[11].active_window = "YouTube"
    /\ events[11].category = "distraction"
    /\ events[11].timestamp = events[10].timestamp + 60

\* C16: after Scenario A the YouTube event has streak_seconds = 0, get_stats()
\* reports a current streak of 0 and longest_focus_streak_seconds is about 600
\* (within a few seconds)
C16_ScenarioA ==
    IsScenarioA =>
        /\ events[11].streak_seconds = 0
        /\ get_stats.current_streak_seconds = 0
        /\ longest_focus_streak_seconds \in 595..605

\* C16 as amended: the same, with longest_focus_streak_seconds = 540, the
\* time from the first Cursor sample to the tenth
C16_ScenarioAFirstToLast ==
    IsScenarioA =>
        /\ events[11].streak_seconds = 0
        /\ get_stats.current_streak_seconds = 0
        /\ longest_focus_streak_seconds = 540
        /\ get_stats.longest_focus_streak_seconds = 540

\* Scenario A has been run to its last sample; the tenth Cursor sample
\* reported the streak that became the longest
C16_Witness ==
    /\ IsScenarioA
    /\ events[10].streak_seconds = 540
    /\ events[11].streak_seconds = 0
    /\ current_streak_start = None
    /\ longest_focus_streak_seconds = 540

C18_CurrentStreakOnlyInFocus ==
    /\ get_stats.current_streak_seconds # 0
          => /\ events # <<>>
             /\ events[Len(events)].category = "focus"
             /\ current_category = Some("focus")
             /\ current_streak_category = Some("focus")
    /\ (events # <<>> /\ events[Len(events)].category # "focus")
          => get_stats.current_streak_seconds = 0

\* the last sample broke a streak that had set the longest streak: the
\* current streak is reported as 0 next to a positive longest streak
C18_Witness ==
    /\ Len(events) >= 3
    /\ events[Len(events)].category # "focus"
    /\ events[Len(events) - 1].streak_seconds > 0
    /\ get_stats.longest_focus_streak_seconds > 0
    /\ get_stats.current_streak_seconds = 0

\* C19: the event of a record_activity() call has duration_seconds =
\* min(timestamp - last_poll_time, 300): 0 on the first sample of a session,
\* at most 300 after any gap, and never negative
C19_DurationCapped ==
    [][h_call'.op = "record_activity" =>
          LET e == events'[Len(events')] IN
          /\ e.duration_seconds =
                 (IF session_start = None THEN 0
                  ELSE Min(e.timestamp - Val(last_poll_time), 300))
          /\ e.duration_seconds >= 0
          /\ e.duration_seconds <= 300]_vars

\* a sample taken 400 s after the previous one was logged with 300 s
C19_Witness ==
    /\ h_call.op = "record_activity"
    /\ Len(events) >= 2
    /\ events[Len(events)].timestamp - events[Len(events) - 1].timestamp = 400
    /\ events[Len(events)].duration_seconds = 300
    /\ events[1].duration_seconds = 0

\* C20: a record_activity() call with a window title adds the duration to
\* the record's total_seconds, adds it to focus_seconds exactly when the
\* category is focus, and adds 1 to usage_count exactly when the window
\* differs from the previous sample's window
C20_UsageCountOnSwitch ==
    [][(h_call'.op = "record_activity" /\ Val(current_window') # "") =>
          LET w == Val(current_window')
              e == events'[Len(events')]
              old == UsageOf(app_usage, w)
              new == app_usage'[w]
          IN  /\ new.total_seconds = old.total_seconds + e.duration_seconds
              /\ new.focus_seconds = old.focus_seconds
                    + (IF e.category = "focus" THEN e.duration_seconds ELSE 0)
              /\ new.usage_count = old.usage_count
                    + (IF current_window # Some(w) THEN 1 ELSE 0)]_vars

----------------------------------------------------------------------------
(* Properties of the samples (specification SpecSamples) *)

\* C21: after every step each app's focus_seconds is at most its
\* total_seconds, and an app's focus_seconds changes only in a
\* record_activity() of that app whose sample is categorised focus
C21_FocusSecondsWithinTotal ==
    [][\A a \in DOMAIN app_usage' :
          /\ app_usage'[a].focus_seconds <= app_usage'[a].total_seconds
          /\ app_usage'[a].focus_seconds # UsageOf(app_usage, a).focus_seconds
                => /\ h_call'.op = "record_activity"
                   /\ current_window' = Some(a)
                   /\ current_category' = Some("focus")]_vars

\* an app gathered focus time, and then more time in a sample that was not
\* focus: its total is above its focus time
C21_Witness ==
    \E a \in DOMAIN app_usage :
        /\ app_usage[a].focus_seconds > 0
        /\ app_usage[a].total_seconds > app_usage[a].focus_seconds
        /\ current_window = Some(a)
        /\ current_category # Some("focus")

\* the first event of the maximal run of consecutive focus events ending at i
RunStart(i) ==
    CHOOSE j \in 1..i :
        /\ \A k \in j..i : events[k].category = "focus"
        /\ j = 1 \/ events[j-1].category # "focus"

\* C30: the streak_seconds of every focus event is the time from the first
\* sample of the maximal run of consecutive focus samples ending at the event
\* to the event's own timestamp
C30_StreakFromRunStart ==
    \A i \in 1..Len(events) :
        events[i].category = "focus" =>
            events[i].streak_seconds
                = events[i].timestamp - events[RunStart(i)].timestamp

\* a run that began after a non-focus sample and is two samples long
C30_Witness ==
    \E i \in 3..Len(events) :
        /\ events[i].category = "focus"
        /\ RunStart(i) = i - 1
        /\ events[i].streak_seconds > 0

\* C24: a record_activity() with an empty title appends one event with window
\* "Unknown" and category neutral, counts as a non-focus sample for the streak,
\* leaves the per-app statistics alone and advances last_poll_time
C24_EmptyTitleSample ==
    [][(h_call'.op = "record_activity" /\ current_window' = Some("")) =>
          LET e == events'[Len(events')] IN
          /\ Len(events') = Len(events) + 1
          /\ e.active_window = "Unknown"
          /\ e.category = "neutral"
          /\ e.streak_seconds = 0
          /\ current_streak_start' = None
          /\ longest_focus_streak_seconds' = longest_focus_streak_seconds
          /\ app_usage' = app_usage
          /\ last_poll_time' = Some(now')
          /\ last_poll_time' = Some(e.timestamp)]_vars

\* an empty-title sample arrived while a focus streak was running
C24_Witness ==
    \E i \in 2..Len(events) :
        /\ events[i].active_window = "Unknown"
        /\ events[i-1].category = "focus"
        /\ events[i-1].streak_seconds > 0
        /\ current_window = Some("")
        /\ last_poll_time = Some(events[i].timestamp)

----------------------------------------------------------------------------
(* Properties of the tracker across resets (specification SpecReset) *)

\* the streak_seconds of the events in the log
LoggedStreaks == {events[i].streak_seconds : i \in 1..Len(events)}

\* the largest of them, 0 when the log is empty
MaxLoggedStreak ==
    IF events = <<>> THEN 0
    ELSE CHOOSE m \in LoggedStreaks : \A x \in LoggedStreaks : x <= m

\* C33: in every state reached by record_activity() calls since construction
\* or the last reset(), longest_focus_streak_seconds is the maximum
\* streak_seconds over the events of the log (0 when the log is empty)
C33_LongestIsMaxStreak ==
    longest_focus_streak_seconds = MaxLoggedStreak

\* after a reset, a focus streak ran and was broken: the last event has
\* streak 0 and the longest streak is that of an earlier event
C33_Witness ==
    /\ h_call.op = "record_activity"
    /\ h_samples > Len(events)
    /\ Len(events) = 3
    /\ events[3].streak_seconds = 0
    /\ longest_focus_streak_seconds > 0
    /\ longest_focus_streak_seconds = events[2].streak_seconds

\* the step is the first record_activity() call after a reset()
IsFirstAfterReset == h_call.op = "reset" /\ h_call'.op = "record_activity"

\* C35: reset() clears events, session_start, last_poll_time, the current
\* window and category, the previous category, the streak state, the longest
\* streak, app usage and drift events and keeps the goal and profile fields;
\* the first sample after a reset is not a drift and starts a new session
C35_ResetClearsTracking ==
    [][/\ h_call'.op = "reset" =>
             /\ events' = <<>>
             /\ session_start' = None
             /\ last_poll_time' = None
             /\ current_window' = None
             /\ current_category' = None
             /\ previous_category' = None
             /\ current_streak_start' = None
             /\ current_streak_category' = None
             /\ longest_focus_streak_seconds' = 0
             /\ app_usage' = <<>>
             /\ drift_events' = <<>>
             /\ UNCHANGED <<current_goal, current_profile, goal_start_time>>
       /\ IsFirstAfterReset =>
             /\ drift_events' = <<>>
             /\ session_start' = Some(now')
             /\ Len(events') = 1
             /\ events'[1].duration_seconds = 0
             /\ events'[1].streak_seconds = 0]_vars

----------------------------------------------------------------------------
(* Properties of the saved state (specification SpecPersist) *)

\* the tracker's fields, serialised as save_state() would
SnapshotNow ==
    Snapshot(events, session_start, current_window, current_category,
             previous_category, current_streak_start, current_streak_category,
             last_poll_time, longest_focus_streak_seconds, app_usage,
             drift_events, current_goal, goal_start_time)

\* C25: a load_state() that finds a saved snapshot leaves the tracker, whether
\* fresh or holding other state, with the event log, session pointers, streak
\* state, longest streak and app-usage map of the snapshot: saving it again
\* would write the same snapshot
C25_LoadRestoresSnapshot ==
    [][(/\ h_call'.op = "load_state"
        /\ enable_persistence
        /\ store # None
        /\ WellFormed(Val(store)))
       => SnapshotNow' = Val(store)]_vars

\* the tracker's fields
memory ==
    <<events, session_start, current_window, current_category,
      previous_category, current_streak_start, current_streak_category,
      last_poll_time, longest_focus_streak_seconds, app_usage, drift_events,
      current_goal, current_profile, goal_start_time>>

\* the load_state() call cannot restore: no store, no file, or a malformed
\* entry in the file
LoadFails ==
    \/ ~enable_persistence
    \/ store = None
    \/ ~WellFormed(Val(store))

\* C36: a load_state() that fails (store unavailable, missing file or
\* malformed snapshot entry) returns False and leaves the tracker's fields as
\* they were; a save_state() that returns False changes none of them
C36_FailedLoadSaveKeepState ==
    [][/\ (h_call'.op = "load_state" /\ LoadFails)
          => (~h_call'.ret /\ memory' = memory)
       /\ (h_call'.op = "save_state" /\ ~h_call'.ret)
          => memory' = memory]_vars

----------------------------------------------------------------------------
(* Properties of the categorizer (specification SpecCategorize) *)

\* the category of the first rule, in the documented order, that one of whose
\* entries is a substring of the lower-cased title
FirstRule(window_title, goal_profile) ==
    LET window_lower == Lower(window_title)
    IN  IF goal_profile # None
           /\ AnyOccurs(LowerAll(Val(goal_profile).focus_apps), window_lower)
        THEN "focus"
        ELSE IF goal_profile # None
           /\ AnyOccurs(LowerAll(Val(goal_profile).distraction_apps), window_lower)
        THEN "distraction"
        ELSE IF goal_profile # None
           /\ AnyOccurs(LowerAll(Val(goal_profile).neutral_apps), window_lower)
        THEN "neutral"
        ELSE IF goal_profile # None
           /\ AnyOccurs(LowerAll(Val(goal_profile).keywords), window_lower)
        THEN "focus"
        ELSE IF AnyOccurs(focus_keywords, window_lower) THEN "focus"
        ELSE IF AnyOccurs(distraction_keywords, window_lower) THEN "distraction"
        ELSE IF AnyOccurs(neutral_keywords, window_lower) THEN "neutral"
        ELSE "neutral"

\* titles of the model that hold an identifier of the tracking application
OwnTitles == {"LifeOS - Cursor"}

\* C22: a sampled title that is not the application's own window gets the
\* category of the first matching rule in the order profile focus_apps,
\* distraction_apps, neutral_apps, keywords, built-in focus, distraction and
\* neutral keywords, else neutral, matching being case-insensitive containment
\* of the entry in the title
C22_PriorityOrder ==
    [][(h_call'.op = "record_activity" /\ Val(current_window') \notin OwnTitles) =>
          events'[Len(events')].category
              = FirstRule(Val(current_window'), current_profile)]_vars

\* C23: a sampled title that holds one of the application's own identifiers
\* is categorised neutral under every goal profile, logs a streak of 0 and
\* leaves no focus streak running
C23_OwnWindowNeutral ==
    [][(h_call'.op = "record_activity" /\ Val(current_window') \in OwnTitles) =>
          /\ events'[Len(events')].category = "neutral"
          /\ current_category' = Some("neutral")
          /\ events'[Len(events')].streak_seconds = 0
          /\ current_streak_start' = None]_vars

\* the application's own window was sampled right after a focus sample, under
\* a profile that lists the application among its focus apps
C23_Witness ==
    /\ Len(events) = 2
    /\ events[1].category = "focus"
    /\ events[2].active_window \in OwnTitles
    /\ events[2].category = "neutral"
    /\ current_streak_start = None
    /\ current_profile # None
    /\ Has(Val(current_profile).focus_apps, "LifeOS")

----------------------------------------------------------------------------
(* Properties of the NudgeEngine (specification SpecNudge) *)

\* the step is a get_nudge() call that returns a message
ReturnsMessage == h_call'.op = "get_nudge" /\ message' # "none"

\* seconds since a message of class c was last returned, before this call
SinceLast(c) == now' - Val(h_nudged[c])

\* C13: a message is returned at least 60 s after the previous message of
\* any class, a completion celebration at least 5 minutes after the previous
\* celebration, a prolonged-distraction message at least 5 minutes after the
\* previous one, and a drift message at least 30 s after the previous drift
C13_Cooldowns ==
    [][ReturnsMessage =>
          /\ h_nudged["any"] # None => SinceLast("any") >= 60
          /\ (message' = "celebration" /\ h_nudged["celebration"] # None)
                => SinceLast("celebration") >= 300
          /\ (message' = "distraction" /\ h_nudged["distraction"] # None)
                => SinceLast("distraction") >= 300
          /\ (message' = "drift" /\ h_nudged["drift"] # None)
                => SinceLast("drift") >= 30]_vars

\* a second celebration has just been returned, more than five minutes after
\* the first one and with a prolonged-distraction message in between
C13_Witness ==
    /\ h_call.op = "get_nudge"
    /\ message = "celebration"
    /\ h_nudged["celebration"] = Some(now)
    /\ h_polled.celebrated
    /\ h_nudged["distraction"] # None
    /\ now - Val(h_nudged["distraction"]) > 300

\* C14: while daily_complete stays true over a sequence of get_nudge() calls,
\* at most one of them returns the celebration message
C14_CelebrationOnce ==
    [][(h_call'.op = "get_nudge" /\ message' = "celebration")
       => ~h_celebrated]_vars

Milestones == {"streak_10", "streak_20", "streak_30"}

\* C15: a call that polls the focus streak while it is in minute N (10, 20
\* or 30) with the cooldown elapsed returns the milestone-N message if the
\* session has not had it yet, and no call returns a milestone message the
\* session has already had
C15_MilestoneOnce ==
    [][h_call'.op = "get_nudge" =>
          LET m == MilestoneOf(h_polled'.streak) IN
          /\ message' \in Milestones => message' \notin h_fired
          /\ (/\ m # "none"
              /\ m \notin h_fired
              /\ ~h_polled'.daily_complete
              /\ (h_nudged["any"] = None \/ SinceLast("any") >= 60))
             => message' = m]_vars

\* C31: after any get_nudge() call made with current_category == "focus",
\* a call suppressed by the cooldown and a call that returns a milestone or
\* praise message included, drift_detected is false
C31_FocusClearsDrift ==
    [][(h_call'.op = "get_nudge" /\ in_category' = Some("focus"))
       => ~engine_drift_detected']_vars

\* the engine's three fields
engineFields == <<engine_last_nudge_time, engine_drift_detected, last_category>>

\* C34: a get_nudge() call returns a message exactly when it sets
\* last_nudge_time to the current time; a call that returns None leaves
\* last_nudge_time unchanged, and a call made within the global cooldown
\* changes no field of the engine
C34_MessageIffStamped ==
    [][h_call'.op = "get_nudge" =>
          /\ message' # "none" <=> engine_last_nudge_time' = Some(now')
          /\ message' = "none"
                => engine_last_nudge_time' = engine_last_nudge_time
          /\ InCooldown(engine_last_nudge_time, now')
                => /\ message' = "none"
                   /\ engineFields' = engineFields]_vars

\* a call on a drifted sample has just been suppressed by the cooldown: the
\* drift message was returned less than 60 s ago and nothing was stamped
C34_Witness ==
    /\ h_call.op = "get_nudge"
    /\ message = "none"
    /\ engine_drift_detected
    /\ engine_last_nudge_time = h_nudged["drift"]
    /\ engine_last_nudge_time # None
    /\ now - Val(engine_last_nudge_time) < nudge_cooldown_seconds

----------------------------------------------------------------------------
(* Properties of the SmartNudgeAgent (specification SpecAgent) *)

\* the step is a process() call
IsProcess == h_call'.op = "process"

\* the user the call is made for, whether nudges are enabled for that user,
\* and last_nudge_time as the call uses it (after "Load state if user
\* changed")
CallUser == Val(current_user_id')
CallEnabled == nudge_settings[CallUser]
CallLast ==
    IF current_user_id' # current_user_id
    THEN LoadState(CallUser, last_nudge_time, nudge_history, now)
    ELSE last_nudge_time

\* the row of nudge_history the call finds for its user, and the seconds that
\* have passed since that row was written
CallRow == nudge_history[CallUser]
CallRowAge == now - (Val(CallRow) + utc_offset)

\* the call ran the normal-mode check
IsNormalTick == IsProcess /\ CallEnabled /\ ~h_call'.flow

\* C4: nudge_level is always an integer in 0..3
C4_LevelInRange == nudge_level \in 0..3

\* four escalations 60 s apart: the fourth found the level at 3 and left it there
C4_Witness ==
    /\ h_call.op = "process"
    /\ h_scen
    /\ {0, 60, 120, 180} \subseteq h_ticks
    /\ now = 180
    /\ nudge_level = 3
    /\ last_nudge_time = Some(now)

\* C5: nudge_level rises only by 1, only on a normal-mode call that observes
\* off_track with no nudge time or with escalation_interval elapsed since it;
\* and a rise from a level of 1 or more (the next rung after an earlier rise)
\* has seen no on-track tick since that earlier rise
C5_IncreaseOnlyWhenDue ==
    [][nudge_level' > nudge_level =>
          /\ IsNormalTick
          /\ nudge_level' = nudge_level + 1
          /\ is_off_track(h_call'.tab)
          /\ (CallLast = None \/ now - Val(CallLast) >= escalation_interval)
          /\ (nudge_level >= 1 => ~h_on_track_seen)]_vars

\* the level has just risen from 1 to 2, a full interval after the first nudge
C5_Witness ==
    /\ h_call.op = "process"
    /\ nudge_level = 2
    /\ last_nudge_time = Some(now)
    /\ now >= escalation_interval

\* C6: a call that observes off_track = false returns {nudge_needed: false}
\* and leaves nudge_level = 0 and last_nudge_time = None
C6_OnTrackResets ==
    (/\ h_call.op = "process"
     /\ nudge_settings[Val(current_user_id)]
     /\ ~h_call.flow
     /\ ~is_off_track(h_call.tab))
    => (result = NoNudge /\ nudge_level = 0 /\ last_nudge_time = None)

\* the times of the three escalations of a run in which one distractor tab
\* stays active, given the times of its ticks: the first tick, the first tick
\* at least escalation_interval later, and the first one that long after that
FirstFrom(ticks, t) ==
    IF \E x \in ticks : x >= t
    THEN Some(CHOOSE x \in ticks : x >= t /\ \A y \in ticks : y >= t => x <= y)
    ELSE None
EscalationTimes(ticks) ==
    LET t1 == FirstFrom(ticks, 0)
        t2 == IF t1 = None THEN None
              ELSE FirstFrom(ticks, Val(t1) + escalation_interval)
        t3 == IF t2 = None THEN None
              ELSE FirstFrom(ticks, Val(t2) + escalation_interval)
    IN  <<t1, t2, t3>>

\* C7: from level 0 with no nudge time and one distractor tab staying active,
\* the first tick notifies at level 1, the first tick 60 s or more later
\* notifies at level 2, the first tick 60 s or more after that reaches level 3
\* and closes the tab (then opens the productive one); the ticks in between
\* change nothing
C7_ScenarioB ==
    [][(IsProcess /\ h_scen') =>
          LET esc == EscalationTimes(h_ticks')
              rung == IF now \in h_ticks THEN 0
                      ELSE IF esc[1] = Some(now) THEN 1
                      ELSE IF esc[2] = Some(now) THEN 2
                      ELSE IF esc[3] = Some(now) THEN 3
                      ELSE 0
          IN  IF rung \in {1, 2}
              THEN /\ nudge_level' = rung
                   /\ result'.nudge_needed /\ result'.level = rung
                   /\ result'.action = "notify"
                   /\ dispatched' = <<"notify">>
              ELSE IF rung = 3
              THEN /\ nudge_level' = 3
                   /\ result'.nudge_needed /\ result'.level = 3
                   /\ dispatched' \in {<<"close_tab", "open_tab", "notify">>,
                                       <<"close_tab", "notify">>}
              ELSE (esc[3] = None \/ now < Val(esc[3]) + escalation_interval)
                   => /\ nudge_level' = nudge_level
                      /\ last_nudge_time' = last_nudge_time
                      /\ result' = NoNudge
                      /\ dispatched' = <<>>]_vars

\* C8: a normal-mode call that observes off_track less than
\* escalation_interval after last_nudge_time returns {nudge_needed: false},
\* dispatches nothing and leaves nudge_level and last_nudge_time as they were
C8_CooldownTickNoChange ==
    [][(/\ IsNormalTick
        /\ is_off_track(h_call'.tab)
        /\ CallLast # None
        /\ now - Val(CallLast) < escalation_interval)
       => (/\ result' = NoNudge
           /\ dispatched' = <<>>
           /\ nudge_level' = nudge_level
           /\ last_nudge_time' = CallLast)]_vars

\* C8 as amended: the same for a call whose active tab is a distractor site
\* (off_track, and not the PERMISSION_ERROR sentinel)
C8_DistractorCooldownTickNoChange ==
    [][(/\ IsNormalTick
        /\ IsDistractorSite(h_call'.tab)
        /\ CallLast # None
        /\ now - Val(CallLast) < escalation_interval)
       => (/\ result' = NoNudge
           /\ dispatched' = <<>>
           /\ nudge_level' = nudge_level
           /\ last_nudge_time' = CallLast)]_vars

\* a tick on a distractor tab inside the interval: quiet, the ladder where it was
C8_Witness ==
    /\ h_call.op = "process"
    /\ nudge_settings[Val(current_user_id)]
    /\ ~h_call.flow
    /\ IsDistractorSite(h_call.tab)
    /\ nudge_level \in 1..2
    /\ last_nudge_time # None
    /\ now - Val(last_nudge_time) = 30
    /\ result = NoNudge
    /\ dispatched = <<>>

\* C9: while the flow flag is set and a distractor stays active, a strict-mode
\* call less than 60 s after the previous strict-mode intervention applies no
\* penalty, so two consecutive interventions are at least 60 s apart
C9_StrictCooldown ==
    [][(/\ IsProcess /\ CallEnabled /\ h_call'.flow
        /\ IsDistractorSite(h_call'.tab)
        /\ h_last_strict # None
        /\ now - Val(h_last_strict) < 60)
       => (result' = NoNudge /\ dispatched' = <<>>)]_vars

\* C10: a call made with the flow flag set leaves nudge_level and
\* last_nudge_time as they were and, unless the active tab matches the
\* distractor list, returns {nudge_needed: false} and applies no penalty
C10_StrictBypassesLadder ==
    [][(IsProcess /\ h_call'.flow)
       => (/\ nudge_level' = nudge_level
           /\ last_nudge_time' = CallLast
           /\ (~IsDistractorSite(h_call'.tab)
                 => result' = NoNudge /\ dispatched' = <<>>))]_vars

\* the call reaches "Check escalation" and finds the escalation due
IsEscalation ==
    /\ IsNormalTick
    /\ IsDistractorSite(h_call'.tab)
    /\ ShouldEscalate(CallLast, now)

\* C11: an escalation that reaches level 3 attempts close_tab; open_tab (of
\* the productive url) is called exactly when close_tab succeeded, and the
\* result is then the 'intervene' action; when close_tab failed the result is
\* a level-3 'notify' with no tab opened; in both cases nudge_level is 3
C11_LevelThreeIntervention ==
    [][(IsEscalation /\ NextLevel(nudge_level) = 3)
       => (/\ nudge_level' = 3
           /\ h_call'.close # None
           /\ Has(dispatched', "open_tab") <=> h_call'.close = Some(TRUE)
           /\ h_call'.close = Some(TRUE)
                 => /\ result'.level = 3 /\ result'.action = "intervene"
                    /\ result'.opened \in {"https://linkedin.com",
                                          "https://leetcode.com"}
           /\ h_call'.close = Some(FALSE)
                 => /\ result'.level = 3 /\ result'.action = "notify"
                    /\ result'.opened = ""
                    /\ result'.nudge_needed)]_vars

\* C12: a normal-mode call whose active tab is the PERMISSION_ERROR sentinel
\* returns the level-1 'grant permission' notify result, raises nothing,
\* closes no tab and leaves nudge_level and last_nudge_time as they were
C12_PermissionErrorNotify ==
    [][(IsNormalTick /\ h_call'.tab = "PERMISSION_ERROR")
       => (/\ result' = PermissionNudge
           /\ ~result'.raised
           /\ result'.level = 1 /\ result'.action = "notify"
           /\ ~Has(dispatched', "close_tab")
           /\ nudge_level' = nudge_level
           /\ last_nudge_time' = CallLast)]_vars

\* the sentinel was seen on a tick at which the next rung was due: the ladder
\* stayed on its rung and the permission nudge was returned
C12_Witness ==
    /\ h_call.op = "process"
    /\ h_call.tab = "PERMISSION_ERROR"
    /\ ~h_call.flow
    /\ nudge_settings[Val(current_user_id)]
    /\ nudge_level = 1
    /\ last_nudge_time # None
    /\ now - Val(last_nudge_time) >= escalation_interval
    /\ result = PermissionNudge
    /\ active_nudge = Some(PermissionNudge)


\* C26: a process() for a newly seen user whose last nudge was stored an hour
\* or more ago does not take that time as last_nudge_time: afterwards
\* last_nudge_time is what it was, or the time of this call's own escalation
C26_StaleTimeNotRestored ==
    [][(IsProcess /\ current_user_id' # current_user_id
        /\ CallRow # None /\ CallRowAge >= RestoreWindow) =>
          last_nudge_time' \in {last_nudge_time, Some(now)}]_vars

\* C32: a call made for a user with nudges enabled while the active tab is
\* the PERMISSION_ERROR sentinel, in normal and in strict mode, deducts no XP
\* and closes no tab, and returns the level-1 'grant permission' notification
C32_PermissionErrorNoAction ==
    [][(IsProcess /\ CallEnabled /\ h_call'.tab = "PERMISSION_ERROR")
       => (/\ ~Has(dispatched', "deduct_xp")
           /\ ~Has(dispatched', "close_tab")
           /\ result' = PermissionNudge)]_vars

\* C38: a process() call that increments nudge_level dispatches the action of
\* the new level and returns a result whose level is the new nudge_level,
\* also when persisting the nudge event fails
C38_EscalationDispatches ==
    [][(IsProcess /\ nudge_level' > nudge_level)
       => (/\ last_nudge_time' = Some(now)
           /\ result'.nudge_needed
           /\ result'.level = nudge_level'
           /\ Has(dispatched', "notify")
           /\ nudge_level' = 3 => Has(dispatched', "close_tab"))]_vars

\* the call is made for another user than the previous call
IsUserChange ==
    IsProcess /\ current_user_id # None /\ current_user_id' # current_user_id

\* the new user's own last nudge time: the stored time if it is fresh
OwnLast ==
    IF CallRow # None /\ CallRowAge < RestoreWindow THEN CallRow ELSE None

\* C39: a process() call made for another user than the previous call runs
\* with the new user's own escalation state: nudge_level 0, and as
\* last_nudge_time the new user's fresh stored time or None
C39_NoLeakBetweenUsers ==
    [][IsUserChange => (nudge_level = 0 /\ CallLast = OwnLast)]_vars

----------------------------------------------------------------------------
(* Properties of the background worker (specification SpecWorker) *)

\* the worker thread ends in this step
LoopExits == loop_pc' = "exited" /\ loop_pc # "exited"

\* C27: the worker ends only after stop(), within one tick interval of it, and
\* a state snapshot has been saved by the time it ends
C27_StopThenFinalSnapshot ==
    [][LoopExits =>
          /\ ~is_running
          /\ h_stopped_at # None
          /\ now - Val(h_stopped_at) <= TickInterval
          /\ store' # None]_vars

C29_ExceptionCaughtInTick ==
    [][/\ (loop_pc \in {"probe", "run"} /\ loop_pc' # loop_pc
           /\ h_tick' = "caught")
            => /\ loop_pc' = "sleep"
               /\ is_running' = is_running
               /\ nudge_level' = nudge_level
               /\ last_nudge_time' = last_nudge_time
       /\ LoopExits => (loop_pc = "check" /\ ~is_running)]_vars

\* an exception was caught in an earlier tick and the tick after the sleep
\* ran process() to its end
C29_Witness ==
    /\ h_caught
    /\ h_tick = "ok"
    /\ h_call.op = "process"
    /\ h_call.flow
    /\ loop_pc = "sleep"
    /\ now > 0

----------------------------------------------------------------------------
(* Properties of the FlowAgent (specification SpecFlow) *)

\* C37: after any sequence of enter_flow()/exit_flow() calls at most one
\* flow loop thread is running, and no loop awards XP once an exit_flow()
\* has been called after its start
C37_OneFlowLoop ==
    /\ Cardinality(RunningLoops) <= 1
    /\ h_late = {}

====
